---- MODULE Spec2Model ----
(***************************************************************************)
(* Model of the testnet-12 explorer (src/src/main.rs): the shared AppState *)
(* with its three caches, the start-up connection, and the request         *)
(* handlers get_blocks, get_mempool, get_address_balance, get_peer_info.   *)
(*                                                                         *)
(* Conventions                                                             *)
(*   Option<T>    a sequence: << >> is None, <<x>> is Some(x)              *)
(*   String       a sequence of character codes wherever the code builds,  *)
(*                joins or compares the text; an opaque TLA+ string where   *)
(*                it is only a label                                        *)
(*   Hash         a natural number below 256, 0 is Hash::default()         *)
(*   a handler    one action per await point of its code; the outcome of    *)
(*                each node call is drawn with \E                           *)
(*   a task       a request running concurrently with others: its handler, *)
(*                its position, its locals and the lock guards it holds     *)
(***************************************************************************)
EXTENDS Integers, Sequences, FiniteSets, TLC

(***************************************************************************)
(* Program constants                                                       *)
(***************************************************************************)
MAX_BLOCKS == 20
MEMPOOL_ATTEMPTS == 3
MAX_DISPLAY == 50
STALE_SECS == 15
MAX_UTXO_DISPLAY == 100
OK == 200
BAD_REQUEST == 400
INTERNAL_SERVER_ERROR == 500
SERVICE_UNAVAILABLE == 503

(***************************************************************************)
(* Bounds of the model                                                     *)
(***************************************************************************)
\* number of blocks the node's DAG may hold (more than MAX_BLOCKS)
MaxChain == 22
\* largest mempool the node may report (more than MAX_DISPLAY)
MaxEntries == 52
\* largest UTXO set the node may report (more than MAX_UTXO_DISPLAY)
MaxUtxos == 101
\* the small UTXO sets the node may report: 0..SmallUtxos entries
SmallUtxos == 2
\* the small mempools the node may report: 0..SmallEntries entries
SmallEntries == 3
\* last reading of the monotonic clock, in seconds (more than 2 * STALE_SECS)
MaxClock == 32
\* bits of the hasher state kept by the model
HasherBits == 16
\* peer requests served in one run
MaxPeerCalls == 5
\* tasks that serve requests at the same time
NumTasks == 2
\* concurrent requests: the mempools the node may report have 0..ConcEntries entries
ConcEntries == 1
\* concurrent requests: the UTXO sets the node may report have 0..ConcUtxos entries
ConcUtxos == 1

None == << >>
Some(x) == <<x>>
IsSome(o) == Len(o) > 0
Unwrap(o) == o[1]

Min(a, b) == IF a <= b THEN a ELSE b

(***************************************************************************)
(* Text                                                                    *)
(***************************************************************************)
HashDefault == 0

\* one lower-case hexadecimal digit, as a character code
HexDigit(d) == IF d < 10 THEN 48 + d ELSE 87 + d

\* Hash::to_string: fixed-width lower-case hex (two digits for the 8-bit
\* hashes of the model)
HashToString(h) == <<HexDigit(h \div 16), HexDigit(h % 16)>>

\* usize/u32 Display: decimal digits without leading zeros
RECURSIVE DecToString(_)
DecToString(n) ==
    IF n < 10 THEN <<48 + n>>
    ELSE DecToString(n \div 10) \o <<48 + (n % 10)>>

\* "None"
StrNone == <<78, 111, 110, 101>>
\* ", "
StrCommaSpace == <<44, 32>>
\* ":"
StrColon == <<58>>
\* "script_"
StrScript == <<115, 99, 114, 105, 112, 116, 95>>

\* [String]::join(sep)
RECURSIVE Join(_, _)
Join(strs, sep) ==
    IF Len(strs) = 0 THEN << >>
    ELSE IF Len(strs) = 1 THEN strs[1]
    ELSE strs[1] \o sep \o Join(Tail(strs), sep)

\* Ord for String: lexicographic on the characters, a proper prefix first
RECURSIVE StrLess(_, _)
StrLess(a, b) ==
    IF Len(b) = 0 THEN FALSE
    ELSE IF Len(a) = 0 THEN TRUE
    ELSE IF a[1] # b[1] THEN a[1] < b[1]
    ELSE StrLess(Tail(a), Tail(b))

VARIABLES
    phase,            \* "starting" until main has tried to connect, then "serving"
    cli,              \* the parsed command line: [kaspad_url, port]
    client,           \* AppState.client: Option<GrpcClient>
    network_info,     \* AppState.network_info
    balance_cache,    \* AppState.balance_cache: address text -> (balance, count, utxos)
    peer_info,        \* AppState.peer_info: Vec<PeerInfo>
    mempool_cache,    \* AppState.mempool_cache: Option<(Instant, MempoolInfo)>
    now,              \* the monotonic clock read by Instant::now(), in seconds
    calls,            \* node calls issued by the request in progress, in order
    blk_pc,           \* get_blocks: position
    node_dag,         \* get_blocks: the DAG the node serves during the request
    total_count,      \* get_blocks: local total_count
    current_hash,     \* get_blocks: local current_hash
    display_blocks,   \* get_blocks: local display_blocks
    blk_iter,         \* get_blocks: iterations of the for loop completed
    blk_result,       \* get_blocks: Option of the response
    mp_pc,            \* get_mempool: position
    mp_attempt,       \* get_mempool: loop variable attempt
    mp_result,        \* get_mempool: Option of the response
    mp_response,      \* get_mempool: local response, Option of the node's entries
    bal_pc,           \* get_address_balance: position
    address,          \* get_address_balance: the path parameter
    parsed_address,   \* get_address_balance: local parsed_address
    indexed_balance,  \* get_address_balance: local indexed_balance
    computed_balance, \* get_address_balance: local computed_balance
    utxos_outcome,    \* get_address_balance: how the timed enumeration ended
    utxos_response,   \* get_address_balance: Option of the node's UTXO entries
    bal_result,       \* get_address_balance: Option of the response
    peer_pc,          \* get_peer_info: position
    peer_log,         \* get_peer_info: how each request served so far ended
    peer_result,      \* get_peer_info: Option of the response
    tasks             \* concurrent requests: the state of each task of the runtime

sharedVars == <<phase, cli, client, network_info, now>>
cacheVars == <<balance_cache, peer_info, mempool_cache>>
blkVars == <<blk_pc, node_dag, total_count, current_hash, display_blocks,
             blk_iter, blk_result>>
mpVars == <<mp_pc, mp_attempt, mp_result, mp_response>>
balVars == <<bal_pc, address, parsed_address, indexed_balance, computed_balance,
             utxos_outcome, utxos_response, bal_result>>
peerVars == <<peer_pc, peer_log, peer_result>>
vars == <<sharedVars, cacheVars, calls, tasks, blkVars, mpVars, balVars, peerVars>>

\* a handler's response: Ok(Json(body)), Err(status) or
\* Err((status, Json(ErrorResponse { error })))
Response(status, body, error) == [status |-> status, body |-> body, error |-> error]
RespOk(body) == Response(OK, Some(body), "")
RespErr(status) == Response(status, None, "")
RespErrMsg(status, error) == Response(status, None, error)

\* one node call in the log of the request: the operation, whether it returned
\* Ok, and the number it returned where the handler reads one
Call(op, ok, ret) == [op |-> op, ok |-> ok, ret |-> ret]

(***************************************************************************)
(* main and connect_to_kaspad                                              *)
(***************************************************************************)
\* the --kaspad-url value (the default): [scheme, rest]; scheme "" is a bare
\* host:port
Urls == { [scheme |-> "", rest |-> "127.0.0.1:16210"] }

\* the url handed to the gRPC client
GrpcUrl(url) ==
    IF url.scheme = "grpc://" THEN url
    ELSE [scheme |-> "grpc://", rest |-> url.rest]

\* the tasks of the runtime that serve requests concurrently
TaskIds == 1..NumTasks

\* a task that serves no request: no locals, no guard held
IdleTask ==
    [ handler |-> "none", pc |-> "idle", attempt |-> 0,
      address |-> [prefix |-> "", payload |-> ""], indexed_balance |-> 0,
      last_seen |-> "", pending |-> None, held |-> {}, calls |-> << >> ]

Init ==
    /\ phase = "starting"
    /\ cli \in [kaspad_url : Urls, port : {3000}]
    /\ client = None
    /\ network_info = [server_url |-> cli.kaspad_url, network |-> "testnet-12",
                       is_connected |-> FALSE]
    /\ balance_cache = [a \in {} |-> << >>]
    /\ peer_info = << >>
    /\ mempool_cache = None
    /\ now = 0
    /\ calls = << >>
    /\ blk_pc = "idle"
    /\ node_dag = None
    /\ total_count = 0
    /\ current_hash = HashDefault
    /\ display_blocks = << >>
    /\ blk_iter = 0
    /\ blk_result = None
    /\ mp_pc = "idle"
    /\ mp_attempt = 0
    /\ mp_result = None
    /\ mp_response = None
    /\ bal_pc = "idle"
    /\ address = [prefix |-> "", payload |-> ""]
    /\ parsed_address = None
    /\ indexed_balance = 0
    /\ computed_balance = None
    /\ utxos_outcome = "none"
    /\ utxos_response = None
    /\ bal_result = None
    /\ peer_pc = "idle"
    /\ peer_log = << >>
    /\ peer_result = None
    /\ tasks = [t \in TaskIds |-> IdleTask]

\* connect_to_kaspad returned Ok: connect_with_args or the fallback connect()
\* produced a client and the test get_info succeeded
ConnectOk ==
    /\ phase = "starting"
    /\ client' = Some([url |-> GrpcUrl(cli.kaspad_url)])
    /\ network_info' = [network_info EXCEPT !.is_connected = TRUE]
    /\ phase' = "serving"
    /\ UNCHANGED <<cli, now, cacheVars, calls, tasks, blkVars, mpVars, balVars,
                   peerVars>>

\* connect_to_kaspad returned Err (both connects failed, or the test get_info
\* failed): main logs it and goes on to serve
ConnectErr ==
    /\ phase = "starting"
    /\ phase' = "serving"
    /\ UNCHANGED <<cli, client, network_info, now, cacheVars, calls, tasks,
                   blkVars, mpVars, balVars, peerVars>>

\* the time that passes in one step of the clock: up to the staleness bound of
\* the mempool cache, or just beyond it
TickSteps == {STALE_SECS, STALE_SECS + 1}

\* time passes
Tick ==
    /\ phase = "serving"
    /\ \E d \in TickSteps :
        /\ now + d <= MaxClock
        /\ now' = now + d
    /\ UNCHANGED <<phase, cli, client, network_info, cacheVars, calls, tasks,
                   blkVars, mpVars, balVars, peerVars>>

(***************************************************************************)
(* get_blocks                                                              *)
(***************************************************************************)
\* the shapes a block of the node's DAG takes in the model
BlockShapes == {"sel", "nov", "dup", "skip", "nolevel"}

\* block h of a DAG whose blocks are 1..n, block 1 being the genesis:
\*   sel      verbose data naming h-1 as selected parent, parents h-1, h-2
\*   nov      no verbose data, parents h-1, h-2
\*   dup      verbose data with a zero selected parent, parents h-1, h-1, h-2, h-1
\*   skip     verbose data naming h-2 as selected parent, parents h-1, h-2
\*   nolevel  verbose data naming h-1, an empty parents_by_level
MkBlock(h, shape) ==
    LET p1 == IF h > 1 THEN <<h - 1>> ELSE << >>
        p2 == IF h > 2 THEN <<h - 2>> ELSE << >>
        sel == CASE shape = "dup" -> HashDefault
                 [] shape = "skip" /\ h > 2 -> h - 2
                 [] OTHER -> h - 1
    IN  [ hash |-> h,
          daa_score |-> 10 * h,
          timestamp |-> 1000 + h,
          bits |-> 7,
          parents_by_level |->
              CASE shape = "nolevel" -> << >>
                [] shape = "dup" -> <<p1 \o p1 \o p2 \o p1, p2>>
                [] OTHER -> <<p1 \o p2>>,
          verbose_data |->
              IF shape = "nov" THEN None
              ELSE Some([ selected_parent_hash |-> sel,
                          transaction_ids |-> [i \in 1..(h % 3) |-> i],
                          difficulty |-> 3 ]),
          transactions |-> << >> ]

\* the DAGs the node may serve: n blocks, odd blocks of one shape and even
\* blocks of another, the sink on top; a pruned node no longer has block 1
MkDag(n, odd, even, pruned) ==
    [ sink |-> n,
      block_count |-> n,
      blocks |-> [h \in (IF pruned THEN 2 ELSE 1)..n |->
                     MkBlock(h, IF h % 2 = 1 THEN odd ELSE even)] ]

Dags ==
    { MkDag(n, odd, even, pruned) :
        n \in 1..MaxChain, odd \in BlockShapes, even \in BlockShapes,
        pruned \in BOOLEAN }

\* parents_by_level.get(0), flattened
Level0(block) ==
    IF Len(block.parents_by_level) >= 1 THEN block.parents_by_level[1] ELSE << >>

\* variant of DedupFrom: the seen set is not consulted
DedupFromKeepAll(hashes, seen) == hashes

\* .filter(|h| seen.insert(*h)): keep the first occurrence of each hash
RECURSIVE DedupFrom(_, _)
DedupFrom(hashes, seen) ==
    IF Len(hashes) = 0 THEN << >>
    ELSE IF hashes[1] \in seen THEN DedupFrom(Tail(hashes), seen)
    ELSE <<hashes[1]>> \o DedupFrom(Tail(hashes), seen \cup {hashes[1]})

ParentHashes(block) == DedupFrom(Level0(block), {})

ParentsString(parent_hashes) ==
    IF Len(parent_hashes) = 0 THEN StrNone
    ELSE Join([i \in 1..Len(parent_hashes) |-> HashToString(parent_hashes[i])],
              StrCommaSpace)

TxCount(block) ==
    IF IsSome(block.verbose_data)
    THEN Len(Unwrap(block.verbose_data).transaction_ids)
    ELSE Len(block.transactions)

Difficulty(block) ==
    IF IsSome(block.verbose_data)
    THEN Unwrap(block.verbose_data).difficulty
    ELSE block.bits

MkBlockInfo(block) ==
    [ hash |-> HashToString(block.hash),
      level |-> block.daa_score,
      parents |-> ParentsString(ParentHashes(block)),
      tx_count |-> TxCount(block),
      timestamp |-> block.timestamp,
      difficulty |-> Difficulty(block) ]

\* variant of NextHash: the verbose selected parent is not consulted
NextHashFirstParent(block) ==
    IF Len(ParentHashes(block)) > 0 THEN Some(ParentHashes(block)[1]) ELSE None

\* the selected parent when verbose data names a non-zero one, else the first
\* direct parent, else None
NextHash(block) ==
    IF IsSome(block.verbose_data)
       /\ Unwrap(block.verbose_data).selected_parent_hash # HashDefault
    THEN Some(Unwrap(block.verbose_data).selected_parent_hash)
    ELSE IF Len(ParentHashes(block)) > 0 THEN Some(ParentHashes(block)[1])
    ELSE None

\* variant of LoopContinues: the bound is taken one too far
LoopContinuesOffByOne(iterations, next_hash) ==
    IsSome(next_hash) /\ iterations <= MAX_BLOCKS

\* the for loop goes round again: there is a next hash and fewer than
\* MAX_BLOCKS iterations were made
LoopContinues(iterations, next_hash) ==
    IsSome(next_hash) /\ iterations < MAX_BLOCKS

\* variant of BlocksUpstreamErr: the blocks collected so far go with the error
BlocksUpstreamErrPartial ==
    Response(INTERNAL_SERVER_ERROR,
             Some([total_count |-> total_count, blocks |-> display_blocks]), "")

\* what the ? operator returns on an upstream failure: the error alone
BlocksUpstreamErr == RespErr(INTERNAL_SERVER_ERROR)

\* the request arrives; the handler takes the client read guard and fails at
\* once when there is no client
BlocksStart ==
    /\ phase = "serving"
    /\ blk_pc = "idle"
    /\ \E d \in Dags : node_dag' = Some(d)
    /\ calls' = << >>
    /\ IF IsSome(client)
       THEN /\ blk_pc' = "dag_info"
            /\ blk_result' = None
       ELSE /\ blk_pc' = "done"
            /\ blk_result' = Some(RespErr(SERVICE_UNAVAILABLE))
    /\ UNCHANGED <<sharedVars, tasks, cacheVars, total_count, current_hash,
                   display_blocks, blk_iter, mpVars, balVars, peerVars>>

\* get_block_dag_info() failed
BlocksDagInfoErr ==
    /\ blk_pc = "dag_info"
    /\ calls' = Append(calls, Call("get_block_dag_info", FALSE, 0))
    /\ blk_pc' = "done"
    /\ blk_result' = Some(BlocksUpstreamErr)
    /\ UNCHANGED <<sharedVars, tasks, cacheVars, node_dag, total_count, current_hash,
                   display_blocks, blk_iter, mpVars, balVars, peerVars>>

\* get_block_dag_info() answered
BlocksDagInfoOk ==
    /\ blk_pc = "dag_info"
    /\ calls' = Append(calls, Call("get_block_dag_info", TRUE, 0))
    /\ total_count' = Unwrap(node_dag).block_count
    /\ current_hash' = Unwrap(node_dag).sink
    /\ display_blocks' = << >>
    /\ blk_iter' = 0
    /\ blk_pc' = "get_block"
    /\ UNCHANGED <<sharedVars, tasks, cacheVars, node_dag, blk_result, mpVars, balVars,
                   peerVars>>

\* get_block(current_hash, false) failed: the node has no such block, or the
\* call itself failed
BlocksGetBlockErr ==
    /\ blk_pc = "get_block"
    /\ calls' = Append(calls, Call("get_block", FALSE, 0))
    /\ blk_pc' = "done"
    /\ blk_result' = Some(BlocksUpstreamErr)
    /\ UNCHANGED <<sharedVars, tasks, cacheVars, node_dag, total_count, current_hash,
                   display_blocks, blk_iter, mpVars, balVars, peerVars>>

\* get_block(current_hash, false) answered: one iteration of the loop body,
\* and the return when the loop ends
BlocksGetBlockOk ==
    /\ blk_pc = "get_block"
    /\ current_hash \in DOMAIN Unwrap(node_dag).blocks
    /\ LET block == Unwrap(node_dag).blocks[current_hash]
           pushed == Append(display_blocks, MkBlockInfo(block))
           next_hash == NextHash(block)
       IN  /\ calls' = Append(calls, Call("get_block", TRUE, 0))
           /\ display_blocks' = pushed
           /\ blk_iter' = blk_iter + 1
           /\ current_hash' = IF IsSome(next_hash) THEN Unwrap(next_hash)
                              ELSE current_hash
           /\ IF LoopContinues(blk_iter + 1, next_hash)
              THEN /\ blk_pc' = "get_block"
                   /\ blk_result' = blk_result
              ELSE /\ blk_pc' = "done"
                   /\ blk_result' = Some(RespOk([ total_count |-> total_count,
                                                  blocks |-> pushed ]))
    /\ UNCHANGED <<sharedVars, tasks, cacheVars, node_dag, total_count, mpVars, balVars,
                   peerVars>>

\* the response has been sent; the handler's locals are dropped
BlocksReturn ==
    /\ blk_pc = "done"
    /\ blk_pc' = "idle"
    /\ node_dag' = None
    /\ total_count' = 0
    /\ current_hash' = HashDefault
    /\ display_blocks' = << >>
    /\ blk_iter' = 0
    /\ blk_result' = None
    /\ calls' = << >>
    /\ UNCHANGED <<sharedVars, tasks, cacheVars, mpVars, balVars, peerVars>>

StartupNext == ConnectOk \/ ConnectErr

BlocksNext ==
    \/ StartupNext
    \/ BlocksStart
    \/ BlocksDagInfoErr
    \/ BlocksDagInfoOk
    \/ BlocksGetBlockErr
    \/ BlocksGetBlockOk
    \/ BlocksReturn

SpecBlocks == Init /\ [][BlocksNext]_vars

(***************************************************************************)
(* get_mempool                                                             *)
(***************************************************************************)
\* the entry orders and identifier sources the node's answer takes in the model
EntryPatterns == {"rev", "mix", "bare"}

\* entry i of an n-entry answer:
\*   bare no entry has verbose data
\*   rev  verbose data with transaction ids n, n-1, ..., 1
\*   mix  every fifth entry without verbose data, every third with a zero
\*        transaction id and a hash, the others with transaction ids that
\*        repeat and are out of order
MkEntry(i, n, pattern) ==
    [ transaction |->
        [ verbose_data |->
              IF pattern = "bare" THEN None
              ELSE IF pattern = "rev"
              THEN Some([transaction_id |-> n + 1 - i, hash |-> 200])
              ELSE IF i % 5 = 0 THEN None
              ELSE IF i % 3 = 0
              THEN Some([transaction_id |-> HashDefault, hash |-> ((i * 7) % 23) + 1])
              ELSE Some([transaction_id |-> ((i * 11) % 29) + 30, hash |-> 201]),
          inputs |-> [j \in 1..((i % 2) + 1) |-> j],
          outputs |-> [j \in 1..(i % 3) |-> [value |-> i + j]] ] ]

MkEntries(n, pattern) == [i \in 1..n |-> MkEntry(i, n, pattern)]

\* the same entries in the opposite order: the node keeps its mempool in a
\* hash map and answers in no fixed order
Reversed(seq) == [i \in 1..Len(seq) |-> seq[Len(seq) + 1 - i]]

\* the answers of get_mempool_entries: the small ones of every pattern in
\* either order, and the ones around MAX_DISPLAY
MempoolResponses ==
    LET small == { MkEntries(n, pattern) :
                      n \in 0..SmallEntries, pattern \in EntryPatterns }
    IN  small \cup { Reversed(response) : response \in small }
        \cup { MkEntries(n, "mix") : n \in (MAX_DISPLAY - 1)..MaxEntries }

\* the mempool_size values of a get_info answer
InfoMempoolSizes == {0, 7}

\* the identifier of an entry: the verbose transaction id, the verbose hash
\* when that id is zero, the empty string without verbose data
EntryId(entry) ==
    LET v == entry.transaction.verbose_data
    IN  IF IsSome(v)
        THEN IF Unwrap(v).transaction_id # HashDefault
             THEN HashToString(Unwrap(v).transaction_id)
             ELSE HashToString(Unwrap(v).hash)
        ELSE << >>

EntriesWithId(response) ==
    [i \in 1..Len(response) |-> <<EntryId(response[i]), response[i]>>]

\* sort_by(|(a, _), (b, _)| a.cmp(b)) is a stable sort: an element goes after
\* every element that is not greater
InsertById(sorted, x) ==
    LET k == Cardinality({i \in 1..Len(sorted) : ~StrLess(x[1], sorted[i][1])})
    IN  SubSeq(sorted, 1, k) \o <<x>> \o SubSeq(sorted, k + 1, Len(sorted))

RECURSIVE SortFrom(_, _, _)
SortFrom(seq, i, acc) ==
    IF i > Len(seq) \/ Len(acc) # i - 1 THEN acc
    ELSE SortFrom(seq, i + 1, InsertById(acc, seq[i]))

SortById(seq) == SortFrom(seq, 1, << >>)

\* DefaultHasher: a 64-bit hash of the bytes written; the model keeps
\* HasherBits bits and mixes each byte in with a multiply-and-add.
\* <String as Hash>::hash writes the bytes of the text and then 0xff.
HasherMod == 2 ^ HasherBits

HasherWrite(h, byte) == (h * 31 + byte) % HasherMod

RECURSIVE HashString(_, _, _)
HashString(h, str, i) ==
    IF i > Len(str) THEN HasherWrite(h, 255)
    ELSE HashString(HasherWrite(h, str[i]), str, i + 1)

RECURSIVE HashIds(_, _, _)
HashIds(h, sorted, i) ==
    IF i > Len(sorted) \/ h < 0 THEN h
    ELSE HashIds(HashString(h, sorted[i][1], 1), sorted, i + 1)

\* hasher.finish() after every id of the sorted list was written
Seed(sorted) == HashIds(0, sorted, 1)

SumValues(outputs) ==
    LET RECURSIVE Go(_, _)
        Go(i, acc) == IF i > Len(outputs) \/ acc < 0 THEN acc
                      ELSE Go(i + 1, acc + outputs[i].value)
    IN  Go(1, 0)

MkTransactionInfo(pair) ==
    [ id |-> pair[1],
      input_count |-> Len(pair[2].transaction.inputs),
      output_count |-> Len(pair[2].transaction.outputs),
      amount |-> SumValues(pair[2].transaction.outputs) ]

\* let limit = 50usize.min(len)
WindowLimit(len) == Min(MAX_DISPLAY, len)

\* variant of WindowStart: always the head of the sorted list
WindowStartZero(seed, len) == 0

\* let start = if len == 0 { 0 } else { seed % len }
WindowStart(seed, len) == IF len = 0 THEN 0 ELSE seed % len

\* the display loop: entries start, start + 1, ... of the sorted list, wrapping
Window(sorted, start, limit) ==
    [i \in 1..limit |->
        MkTransactionInfo(sorted[((start + (i - 1)) % Len(sorted)) + 1])]

\* the MempoolInfo built from a successful answer
MkMempoolInfo(response) ==
    LET total_size == Len(response)
        entries_with_id == SortById(EntriesWithId(response))
        seed == Seed(entries_with_id)
        len == Len(entries_with_id)
        limit == WindowLimit(len)
        start == WindowStart(seed, len)
    IN  [ size |-> total_size,
          transactions |-> Window(entries_with_id, start, limit) ]

\* variant of SizeOnly: a failed get_info fails the request
SizeOnlyFailing(info_ok, mempool_size) ==
    IF info_ok
    THEN RespOk([size |-> mempool_size, transactions |-> << >>])
    ELSE RespErr(INTERNAL_SERVER_ERROR)

\* variant of SizeOnly: the size get_info reports is dropped
SizeOnlyZero(info_ok, mempool_size) ==
    RespOk([size |-> 0, transactions |-> << >>])

\* the last-resort answer: the size get_info reports, or 0, and no transactions
SizeOnly(info_ok, mempool_size) ==
    RespOk([ size |-> IF info_ok THEN mempool_size ELSE 0,
             transactions |-> << >> ])

\* variant of CacheFresh: a snapshot of any age is served
CacheFreshAnyAge == IsSome(mempool_cache)

\* if ts.elapsed() <= Duration::from_secs(15)
CacheFresh ==
    /\ IsSome(mempool_cache)
    /\ now - Unwrap(mempool_cache).ts <= STALE_SECS

\* the request arrives; the handler takes the client read guard and fails at
\* once when there is no client
MempoolStart ==
    /\ phase = "serving"
    /\ mp_pc = "idle"
    /\ calls' = << >>
    /\ mp_attempt' = 0
    /\ mp_response' = None
    /\ IF IsSome(client)
       THEN /\ mp_pc' = "attempt"
            /\ mp_result' = None
       ELSE /\ mp_pc' = "done"
            /\ mp_result' = Some(RespErr(SERVICE_UNAVAILABLE))
    /\ UNCHANGED <<sharedVars, tasks, cacheVars, blkVars, balVars, peerVars>>

\* variant of MempoolAfterFailure: the loop allows one attempt more
MempoolAfterFailureOneMore(attempt) ==
    IF attempt + 1 <= MEMPOOL_ATTEMPTS THEN "attempt" ELSE "fallback"

\* for attempt in 0..3: where the handler goes after attempt number `attempt`
\* (counted from 0) failed
MempoolAfterFailure(attempt) ==
    IF attempt + 1 < MEMPOOL_ATTEMPTS THEN "attempt" ELSE "fallback"

\* get_mempool_entries(true, false) failed: the handler sleeps and tries
\* again, or leaves the loop after the third failure
MempoolAttemptErr ==
    /\ mp_pc = "attempt"
    /\ calls' = Append(calls, Call("get_mempool_entries", FALSE, 0))
    /\ mp_attempt' = mp_attempt + 1
    /\ mp_pc' = MempoolAfterFailure(mp_attempt)
    /\ UNCHANGED <<sharedVars, tasks, cacheVars, mp_result, mp_response, blkVars,
                   balVars, peerVars>>

\* get_mempool_entries(true, false) answered: the rest of the handler, which
\* builds the view, stores it in the cache and returns it
MempoolAttemptOk ==
    /\ mp_pc = "attempt"
    /\ \E response \in MempoolResponses :
        LET mempool_info == MkMempoolInfo(response)
        IN  /\ calls' = Append(calls, Call("get_mempool_entries", TRUE, Len(response)))
            /\ mp_response' = Some(response)
            /\ mempool_cache' = Some([ts |-> now, info |-> mempool_info])
            /\ mp_result' = Some(RespOk(mempool_info))
    /\ mp_pc' = "done"
    /\ UNCHANGED <<sharedVars, tasks, balance_cache, peer_info, mp_attempt, blkVars,
                   balVars, peerVars>>

\* every attempt failed and the cached snapshot is recent enough: return it
MempoolServeCached ==
    /\ mp_pc = "fallback"
    /\ CacheFresh
    /\ mp_result' = Some(RespOk(Unwrap(mempool_cache).info))
    /\ mp_pc' = "done"
    /\ UNCHANGED <<sharedVars, tasks, cacheVars, calls, mp_attempt, mp_response, blkVars,
                   balVars, peerVars>>

\* every attempt failed and there is no recent snapshot: get_info() answered
MempoolSizeOnlyInfoOk ==
    /\ mp_pc = "fallback"
    /\ ~CacheFresh
    /\ \E mempool_size \in InfoMempoolSizes :
        /\ calls' = Append(calls, Call("get_info", TRUE, mempool_size))
        /\ mp_result' = Some(SizeOnly(TRUE, mempool_size))
    /\ mp_pc' = "done"
    /\ UNCHANGED <<sharedVars, tasks, cacheVars, mp_attempt, mp_response, blkVars,
                   balVars, peerVars>>

\* every attempt failed and there is no recent snapshot: get_info() failed too
MempoolSizeOnlyInfoErr ==
    /\ mp_pc = "fallback"
    /\ ~CacheFresh
    /\ calls' = Append(calls, Call("get_info", FALSE, 0))
    /\ mp_result' = Some(SizeOnly(FALSE, 0))
    /\ mp_pc' = "done"
    /\ UNCHANGED <<sharedVars, tasks, cacheVars, mp_attempt, mp_response, blkVars,
                   balVars, peerVars>>

\* the response has been sent; the handler's locals are dropped
MempoolReturn ==
    /\ mp_pc = "done"
    /\ mp_pc' = "idle"
    /\ mp_attempt' = 0
    /\ mp_response' = None
    /\ mp_result' = None
    /\ calls' = << >>
    /\ UNCHANGED <<sharedVars, tasks, cacheVars, blkVars, balVars, peerVars>>

MempoolNext ==
    \/ StartupNext
    \/ Tick
    \/ MempoolStart
    \/ MempoolAttemptErr
    \/ MempoolAttemptOk
    \/ MempoolServeCached
    \/ MempoolSizeOnlyInfoOk
    \/ MempoolSizeOnlyInfoErr
    \/ MempoolReturn

SpecMempool == Init /\ [][MempoolNext]_vars

\* a step of the request in progress: a node call of it returns, or it answers
\* from the cache
MempoolStep ==
    \/ MempoolAttemptErr
    \/ MempoolAttemptOk
    \/ MempoolServeCached
    \/ MempoolSizeOnlyInfoOk
    \/ MempoolSizeOnlyInfoErr

\* every node call returns (the client is built with a request timeout,
\* main.rs:167-176) and the 150 ms sleep ends, so a request that can take a
\* step takes one
SpecMempoolFair == Init /\ [][MempoolNext]_vars /\ WF_vars(MempoolStep)

(***************************************************************************)
(* get_address_balance                                                     *)
(***************************************************************************)
\* an address text "prefix:payload"; a text without a colon has no prefix
AddressText(prefix, payload) == [prefix |-> prefix, payload |-> payload]

\* the path parameters tried: two well-formed addresses and one that is not
AddressTexts ==
    { AddressText("kaspatest", "qa"),
      AddressText("kaspatest", "qb"),
      AddressText("", "not-a-real-address") }

\* the prefixes and payloads the address codec accepts
AddressPrefixes == {"kaspa", "kaspatest", "kaspasim", "kaspadev"}
ValidPayloads == {"qa", "qb"}

\* Address::try_from(text): Option of the parsed address
AddressTryFrom(text) ==
    IF text.prefix \in AddressPrefixes /\ text.payload \in ValidPayloads
    THEN Some([prefix |-> text.prefix, version |-> 0, payload |-> text.payload])
    ELSE None

\* the amounts of the UTXOs of an answer: all 1, or 2, 4, 0, 2, 4, 0, ...
UtxoPatterns == {"ones", "mix"}

MkUtxo(i, pattern) ==
    [ outpoint |-> [transaction_id |-> (i % 7) + 1, index |-> i - 1],
      utxo_entry |-> [amount |-> IF pattern = "ones" THEN 1 ELSE (i % 3) * 2] ]

MkUtxos(n, pattern) == [i \in 1..n |-> MkUtxo(i, pattern)]

\* the answers of get_utxos_by_addresses: the small ones of either pattern and
\* the ones around MAX_UTXO_DISPLAY
UtxoResponses ==
    { MkUtxos(n, pattern) : n \in 0..SmallUtxos, pattern \in UtxoPatterns }
    \cup { MkUtxos(n, "ones") : n \in (MAX_UTXO_DISPLAY - 1)..MaxUtxos }

\* the answers of get_balance_by_address
IndexedBalances == {0, 2, 100}

\* variant of EarlyReply: the address is not checked
EarlyReplyNoParseCheck(text) ==
    IF ~IsSome(client)
    THEN Some(RespErrMsg(SERVICE_UNAVAILABLE, "Not connected to kaspad"))
    ELSE None

\* variant of EarlyReply: one error kind for both checks
EarlyReplyCollapsed(text) ==
    IF ~IsSome(client) \/ ~IsSome(AddressTryFrom(text))
    THEN Some(RespErrMsg(SERVICE_UNAVAILABLE, "Not connected to kaspad"))
    ELSE None

\* variant of EarlyReply: the address is parsed before the client is looked at
EarlyReplyParseFirst(text) ==
    IF ~IsSome(AddressTryFrom(text))
    THEN Some(RespErrMsg(BAD_REQUEST, "Invalid address"))
    ELSE IF ~IsSome(client)
    THEN Some(RespErrMsg(SERVICE_UNAVAILABLE, "Not connected to kaspad"))
    ELSE None

\* the checks made before the first node call: Option of the early response
EarlyReply(text) ==
    IF ~IsSome(client)
    THEN Some(RespErrMsg(SERVICE_UNAVAILABLE, "Not connected to kaspad"))
    ELSE IF ~IsSome(AddressTryFrom(text))
    THEN Some(RespErrMsg(BAD_REQUEST, "Invalid address"))
    ELSE None

\* variant of SumAmounts: the sum is taken inside the i < 100 branch
SumAmountsDisplayed(utxos) ==
    LET RECURSIVE Go(_, _)
        Go(i, acc) == IF i > Min(Len(utxos), MAX_UTXO_DISPLAY) \/ acc < 0 THEN acc
                      ELSE Go(i + 1, acc + utxos[i].utxo_entry.amount)
    IN  Go(1, 0)

\* the loop over utxos_response: sum += amount. The amounts of the model are
\* far below the u64 range, as the amounts of a UTXO set are (the sum of a
\* UTXO set is bounded by the coin supply).
SumAmounts(utxos) ==
    LET RECURSIVE Go(_, _)
        Go(i, acc) == IF i > Len(utxos) \/ acc < 0 THEN acc
                      ELSE Go(i + 1, acc + utxos[i].utxo_entry.amount)
    IN  Go(1, 0)

MkUtxoInfo(utxo) ==
    [ outpoint |-> HashToString(utxo.outpoint.transaction_id) \o StrColon
                   \o DecToString(utxo.outpoint.index),
      amount |-> utxo.utxo_entry.amount,
      script_public_key |-> StrScript \o DecToString(utxo.outpoint.index) ]

\* the loop over utxos_response: if i < 100 { display_utxos.push(..) }
DisplayUtxos(utxos) ==
    [i \in 1..Min(Len(utxos), MAX_UTXO_DISPLAY) |-> MkUtxoInfo(utxos[i])]

\* variant of TotalBalance: the indexed balance always wins
TotalBalanceIndexedFirst(computed, indexed) == indexed

\* variant of TotalBalance: unwrap_or(0)
TotalBalanceOrZero(computed, indexed) ==
    IF IsSome(computed) THEN Unwrap(computed) ELSE 0

\* let total_balance = computed_balance.unwrap_or(indexed_balance)
TotalBalance(computed, indexed) ==
    IF IsSome(computed) THEN Unwrap(computed) ELSE indexed

\* variant of MapInsert: an entry that exists gets the new balance only
MapInsertBalanceOnly(map, key, value) ==
    [k \in DOMAIN map \cup {key} |->
        IF k # key THEN map[k]
        ELSE IF key \in DOMAIN map THEN <<value[1], map[key][2], map[key][3]>>
        ELSE value]

\* HashMap::insert
MapInsert(map, key, value) ==
    [k \in DOMAIN map \cup {key} |-> IF k = key THEN value ELSE map[k]]

\* the request arrives; the handler takes the client read guard, fails at once
\* when there is no client, then parses the address
BalanceStart ==
    /\ phase = "serving"
    /\ bal_pc = "idle"
    /\ \E text \in AddressTexts :
        /\ address' = text
        /\ parsed_address' = AddressTryFrom(text)
        /\ IF IsSome(EarlyReply(text))
           THEN /\ bal_pc' = "done"
                /\ bal_result' = EarlyReply(text)
           ELSE /\ bal_pc' = "get_info"
                /\ bal_result' = None
    /\ calls' = << >>
    /\ UNCHANGED <<sharedVars, tasks, cacheVars, indexed_balance, computed_balance,
                   utxos_outcome, utxos_response, blkVars, mpVars, peerVars>>

\* get_info() failed
BalanceInfoErr ==
    /\ bal_pc = "get_info"
    /\ calls' = Append(calls, Call("get_info", FALSE, 0))
    /\ bal_result' = Some(RespErrMsg(INTERNAL_SERVER_ERROR,
                                     "Failed to query kaspad info"))
    /\ bal_pc' = "done"
    /\ UNCHANGED <<sharedVars, tasks, cacheVars, address, parsed_address, indexed_balance,
                   computed_balance, utxos_outcome, utxos_response, blkVars,
                   mpVars, peerVars>>

\* get_info() answered: the node must be UTXO-indexed
BalanceInfoOk ==
    /\ bal_pc = "get_info"
    /\ \E is_utxo_indexed \in BOOLEAN :
        /\ calls' = Append(calls, Call("get_info", TRUE,
                                       IF is_utxo_indexed THEN 1 ELSE 0))
        /\ IF is_utxo_indexed
           THEN /\ bal_pc' = "get_balance"
                /\ bal_result' = bal_result
           ELSE /\ bal_pc' = "done"
                /\ bal_result' =
                      Some(RespErrMsg(SERVICE_UNAVAILABLE,
                           "Address balance requires kaspad to run with --utxoindex"))
    /\ UNCHANGED <<sharedVars, tasks, cacheVars, address, parsed_address, indexed_balance,
                   computed_balance, utxos_outcome, utxos_response, blkVars,
                   mpVars, peerVars>>

\* get_balance_by_address(parsed_address) failed
BalanceIndexedErr ==
    /\ bal_pc = "get_balance"
    /\ calls' = Append(calls, Call("get_balance_by_address", FALSE, 0))
    /\ bal_result' =
          Some(RespErrMsg(INTERNAL_SERVER_ERROR,
               "Failed to fetch indexed balance (is --utxoindex enabled?)"))
    /\ bal_pc' = "done"
    /\ UNCHANGED <<sharedVars, tasks, cacheVars, address, parsed_address, indexed_balance,
                   computed_balance, utxos_outcome, utxos_response, blkVars,
                   mpVars, peerVars>>

\* get_balance_by_address(parsed_address) answered
BalanceIndexedOk ==
    /\ bal_pc = "get_balance"
    /\ \E balance \in IndexedBalances :
        /\ calls' = Append(calls, Call("get_balance_by_address", TRUE, balance))
        /\ indexed_balance' = balance
    /\ bal_pc' = "get_utxos"
    /\ UNCHANGED <<sharedVars, tasks, cacheVars, address, parsed_address,
                   computed_balance, utxos_outcome, utxos_response, bal_result,
                   blkVars, mpVars, peerVars>>

\* the rest of the handler once the timed enumeration has ended with the
\* given locals: cache the record under the address text and return it
BalanceFinish(display_utxos, utxo_count_total, computed) ==
    LET total_balance == TotalBalance(computed, indexed_balance)
    IN  /\ computed_balance' = computed
        /\ balance_cache' = MapInsert(balance_cache, address,
                                <<total_balance, utxo_count_total, display_utxos>>)
        /\ bal_result' = Some(RespOk([ address |-> address,
                                       balance |-> total_balance,
                                       utxo_count_total |-> utxo_count_total,
                                       utxos |-> display_utxos ]))
        /\ bal_pc' = "done"

\* get_utxos_by_addresses answered within the 20 seconds
BalanceUtxosOk ==
    /\ bal_pc = "get_utxos"
    /\ \E utxos \in UtxoResponses :
        /\ calls' = Append(calls, Call("get_utxos_by_addresses", TRUE, Len(utxos)))
        /\ utxos_response' = Some(utxos)
        /\ BalanceFinish(DisplayUtxos(utxos), Some(Len(utxos)),
                         Some(SumAmounts(utxos)))
    /\ utxos_outcome' = "ok"
    /\ UNCHANGED <<sharedVars, tasks, peer_info, mempool_cache, address, parsed_address,
                   indexed_balance, blkVars, mpVars, peerVars>>

\* get_utxos_by_addresses failed within the 20 seconds
BalanceUtxosErr ==
    /\ bal_pc = "get_utxos"
    /\ calls' = Append(calls, Call("get_utxos_by_addresses", FALSE, 0))
    /\ BalanceFinish(<< >>, None, None)
    /\ utxos_outcome' = "err"
    /\ UNCHANGED <<sharedVars, tasks, peer_info, mempool_cache, address, parsed_address,
                   indexed_balance, utxos_response, blkVars, mpVars, peerVars>>

\* the 20 seconds passed before get_utxos_by_addresses ended
BalanceUtxosTimeout ==
    /\ bal_pc = "get_utxos"
    /\ calls' = Append(calls, Call("get_utxos_by_addresses", FALSE, 0))
    /\ BalanceFinish(<< >>, None, None)
    /\ utxos_outcome' = "timeout"
    /\ UNCHANGED <<sharedVars, tasks, peer_info, mempool_cache, address, parsed_address,
                   indexed_balance, utxos_response, blkVars, mpVars, peerVars>>

\* the response has been sent; the handler's locals are dropped
BalanceReturn ==
    /\ bal_pc = "done"
    /\ bal_pc' = "idle"
    /\ address' = AddressText("", "")
    /\ parsed_address' = None
    /\ indexed_balance' = 0
    /\ computed_balance' = None
    /\ utxos_outcome' = "none"
    /\ utxos_response' = None
    /\ bal_result' = None
    /\ calls' = << >>
    /\ UNCHANGED <<sharedVars, tasks, cacheVars, blkVars, mpVars, peerVars>>

BalanceNext ==
    \/ StartupNext
    \/ BalanceStart
    \/ BalanceInfoErr
    \/ BalanceInfoOk
    \/ BalanceIndexedErr
    \/ BalanceIndexedOk
    \/ BalanceUtxosOk
    \/ BalanceUtxosErr
    \/ BalanceUtxosTimeout
    \/ BalanceReturn

SpecBalance == Init /\ [][BalanceNext]_vars

(***************************************************************************)
(* get_peer_info                                                           *)
(***************************************************************************)
MkPeerInfo(id, peer_address, is_connected, last_seen) ==
    [ id |-> id, address |-> peer_address, is_connected |-> is_connected,
      last_seen |-> last_seen ]

\* the list built after a successful get_info: this node and the fixed peer
ConnectedPeerList ==
    << MkPeerInfo("local", network_info.server_url, TRUE, "now"),
       MkPeerInfo("peer-82.166.83.140",
                  [scheme |-> "", rest |-> "82.166.83.140:16311"], TRUE, "recent") >>

\* the single entry made up when nothing is cached
DisconnectedSelf(last_seen) ==
    << MkPeerInfo("local-node", network_info.server_url, FALSE, last_seen) >>

\* variant of PeerFallback: the cache is not consulted
PeerFallbackNoCache(last_seen) == DisconnectedSelf(last_seen)

\* what is returned when the node cannot be asked: the cached list, or the
\* made-up entry when the cache is empty
PeerFallback(last_seen) ==
    IF Len(peer_info) = 0 THEN DisconnectedSelf(last_seen) ELSE peer_info

\* the request arrives; the handler takes the client read guard and, without a
\* client, answers from the cache at once
PeerStart ==
    /\ phase = "serving"
    /\ peer_pc = "idle"
    /\ Len(peer_log) < MaxPeerCalls
    /\ calls' = << >>
    /\ IF IsSome(client)
       THEN /\ peer_pc' = "get_info"
            /\ peer_result' = None
            /\ peer_log' = peer_log
       ELSE /\ peer_pc' = "done"
            /\ peer_result' = Some(RespOk(PeerFallback("disconnected")))
            /\ peer_log' = Append(peer_log, "no_client")
    /\ UNCHANGED <<sharedVars, tasks, cacheVars, blkVars, mpVars, balVars>>

\* get_info() answered: build the list, store it in the cache, return it
PeerInfoOk ==
    /\ peer_pc = "get_info"
    /\ calls' = Append(calls, Call("get_info", TRUE, 0))
    /\ peer_info' = ConnectedPeerList
    /\ peer_result' = Some(RespOk(ConnectedPeerList))
    /\ peer_log' = Append(peer_log, "ok")
    /\ peer_pc' = "done"
    /\ UNCHANGED <<sharedVars, tasks, balance_cache, mempool_cache, blkVars, mpVars,
                   balVars>>

\* variant of PeerInfoErr: the list that is returned is also stored
PeerInfoErrCaching ==
    /\ peer_pc = "get_info"
    /\ calls' = Append(calls, Call("get_info", FALSE, 0))
    /\ peer_info' = PeerFallback("error")
    /\ peer_result' = Some(RespOk(PeerFallback("error")))
    /\ peer_log' = Append(peer_log, "err")
    /\ peer_pc' = "done"
    /\ UNCHANGED <<sharedVars, tasks, balance_cache, mempool_cache, blkVars, mpVars,
                   balVars>>

\* get_info() failed: answer from the cache
PeerInfoErr ==
    /\ peer_pc = "get_info"
    /\ calls' = Append(calls, Call("get_info", FALSE, 0))
    /\ peer_result' = Some(RespOk(PeerFallback("error")))
    /\ peer_log' = Append(peer_log, "err")
    /\ peer_pc' = "done"
    /\ UNCHANGED <<sharedVars, tasks, cacheVars, blkVars, mpVars, balVars>>

\* the response has been sent
PeerReturn ==
    /\ peer_pc = "done"
    /\ peer_pc' = "idle"
    /\ peer_result' = None
    /\ calls' = << >>
    /\ UNCHANGED <<sharedVars, tasks, cacheVars, peer_log, blkVars, mpVars, balVars>>

PeersNext ==
    \/ StartupNext
    \/ PeerStart
    \/ PeerInfoOk
    \/ PeerInfoErr
    \/ PeerReturn

SpecPeers == Init /\ [][PeersNext]_vars

(***************************************************************************)
(* The service after a failed start-up                                     *)
(***************************************************************************)
\* the runs in which connect_to_kaspad returned Err: main goes on to serve
\* (main.rs:121-123) and nothing connects again, so the handlers, which run
\* concurrently, all find state.client at None and end before their first
\* node call
StartupFailedNext ==
    \/ ConnectErr
    \/ BlocksStart
    \/ BlocksReturn
    \/ MempoolStart
    \/ MempoolReturn
    \/ BalanceStart
    \/ BalanceReturn
    \/ PeerStart
    \/ PeerReturn

SpecStartupFailed == Init /\ [][StartupFailedNext]_vars

(***************************************************************************)
(* Concurrent requests                                                     *)
(***************************************************************************)
\* Every request runs as a task. A task record holds the handler it runs, its
\* position (the node call or the lock it waits for, or the synchronous code
\* it is about to run), its locals, the lock guards it holds as pairs
\* <<lock, mode>>, and the node calls that have returned to it so far. The
\* node's answers are drawn from small sets.
CacheLocks == {"mempool_cache", "balance_cache", "peer_info"}

\* tokio::sync::RwLock: readers share, a writer excludes everyone
CanRead(t, lock) ==
    \A u \in TaskIds \ {t} : <<lock, "write">> \notin tasks[u].held

CanWrite(t, lock) ==
    \A u \in TaskIds \ {t} :
        <<lock, "read">> \notin tasks[u].held /\ <<lock, "write">> \notin tasks[u].held

\* let client_guard = state.client.read().await: held to the end of the handler
ClientGuard == {<<"client", "read">>}

\* the positions at which a node call of the task is in flight
RpcPcs == {"get_mempool_entries", "get_info", "get_balance_by_address",
           "get_utxos_by_addresses"}

\* the positions at which the task waits for a lock
LockWaitPcs == {"mempool_cache.write", "mempool_cache.read", "balance_cache.write",
                "peer_info.write", "peer_info.read", "network_info.read"}

ConcMempoolResponses ==
    { MkEntries(n, pattern) : n \in 0..ConcEntries, pattern \in {"rev", "bare"} }

ConcUtxoResponses ==
    { MkUtxos(n, pattern) : n \in 0..ConcUtxos, pattern \in UtxoPatterns }

ConcBalances == {0, 2}

ConcAddresses ==
    { AddressText("kaspatest", "qa"), AddressText("", "not-a-real-address") }

\* the task moves on
TaskGoes(t, record) == tasks' = [tasks EXCEPT ![t] = record]

\* the handler returns: its locals and guards are dropped
TaskReturns(t) == TaskGoes(t, IdleTask)

\* get_mempool starts: without a client it returns at once
TaskMempoolStart(t) ==
    /\ phase = "serving"
    /\ tasks[t].pc = "idle"
    /\ IsSome(client)
    /\ TaskGoes(t, [IdleTask EXCEPT !.handler = "mempool",
                                   !.pc = "get_mempool_entries",
                                   !.held = ClientGuard])
    /\ UNCHANGED <<sharedVars, cacheVars, calls, blkVars, mpVars, balVars, peerVars>>

\* get_mempool_entries failed: sleep, then the next attempt or the fallback
TaskMempoolEntriesErr(t) ==
    /\ tasks[t].handler = "mempool"
    /\ tasks[t].pc = "get_mempool_entries"
    /\ TaskGoes(t, [tasks[t] EXCEPT
                      !.attempt = @ + 1,
                      !.calls = Append(@, Call("get_mempool_entries", FALSE, 0)),
                      !.pc = IF MempoolAfterFailure(tasks[t].attempt) = "attempt"
                             THEN "get_mempool_entries"
                             ELSE "mempool_cache.read"])
    /\ UNCHANGED <<sharedVars, cacheVars, calls, blkVars, mpVars, balVars, peerVars>>

\* get_mempool_entries answered: the view is built, then the handler asks
\* for the write lock of the cache
TaskMempoolEntriesOk(t) ==
    /\ tasks[t].handler = "mempool"
    /\ tasks[t].pc = "get_mempool_entries"
    /\ \E response \in ConcMempoolResponses :
          TaskGoes(t, [tasks[t] EXCEPT
              !.pending = Some(MkMempoolInfo(response)),
              !.calls = Append(@, Call("get_mempool_entries", TRUE, Len(response))),
              !.pc = "mempool_cache.write"])
    /\ UNCHANGED <<sharedVars, cacheVars, calls, blkVars, mpVars, balVars, peerVars>>

\* state.mempool_cache.write().await is granted
TaskMempoolWriteLock(t) ==
    /\ tasks[t].pc = "mempool_cache.write"
    /\ CanWrite(t, "mempool_cache")
    /\ TaskGoes(t, [tasks[t] EXCEPT !.held = @ \cup {<<"mempool_cache", "write">>},
                                   !.pc = "store_mempool"])
    /\ UNCHANGED <<sharedVars, cacheVars, calls, blkVars, mpVars, balVars, peerVars>>

\* *cache = Some((Instant::now(), mempool_info.clone())); the block ends and
\* the handler returns
TaskMempoolStore(t) ==
    /\ tasks[t].pc = "store_mempool"
    /\ mempool_cache' = Some([ts |-> now, info |-> Unwrap(tasks[t].pending)])
    /\ TaskReturns(t)
    /\ UNCHANGED <<sharedVars, balance_cache, peer_info, calls, blkVars, mpVars,
                   balVars, peerVars>>

\* state.mempool_cache.read().await is granted
TaskMempoolReadLock(t) ==
    /\ tasks[t].pc = "mempool_cache.read"
    /\ CanRead(t, "mempool_cache")
    /\ TaskGoes(t, [tasks[t] EXCEPT !.held = @ \cup {<<"mempool_cache", "read">>},
                                   !.pc = "check_mempool"])
    /\ UNCHANGED <<sharedVars, cacheVars, calls, blkVars, mpVars, balVars, peerVars>>

\* variant of HeldAfterCacheCheck: the read guard is bound to a local that
\* lives to the end of the handler
HeldAfterCacheCheckKept(held) == held

\* the read guard is a temporary of the if let: it is dropped where the if let
\* ends, before get_info is called
HeldAfterCacheCheck(held) == held \ {<<"mempool_cache", "read">>}

\* the if let on the cached snapshot: return it when it is recent enough,
\* else go on to get_info
TaskMempoolCheck(t) ==
    /\ tasks[t].pc = "check_mempool"
    /\ IF CacheFresh
       THEN TaskReturns(t)
       ELSE TaskGoes(t, [tasks[t] EXCEPT !.held = HeldAfterCacheCheck(@),
                                         !.pc = "get_info"])
    /\ UNCHANGED <<sharedVars, cacheVars, calls, blkVars, mpVars, balVars, peerVars>>

\* variant of TaskMempoolInfo: the size-only view is stored as a snapshot
TaskMempoolInfoStoring(t) ==
    /\ tasks[t].handler = "mempool"
    /\ tasks[t].pc = "get_info"
    /\ mempool_cache' = Some([ts |-> now, info |-> Unwrap(SizeOnly(FALSE, 0).body)])
    /\ TaskReturns(t)
    /\ UNCHANGED <<sharedVars, balance_cache, peer_info, calls, blkVars, mpVars,
                   balVars, peerVars>>

\* get_info returned, Ok or Err: the size-only view is returned
TaskMempoolInfo(t) ==
    /\ tasks[t].handler = "mempool"
    /\ tasks[t].pc = "get_info"
    /\ TaskReturns(t)
    /\ UNCHANGED <<sharedVars, cacheVars, calls, blkVars, mpVars, balVars, peerVars>>

\* get_address_balance starts: without a client, or with an address that does
\* not parse, it returns at once
TaskBalanceStart(t) ==
    /\ phase = "serving"
    /\ tasks[t].pc = "idle"
    /\ \E text \in ConcAddresses :
        /\ ~IsSome(EarlyReply(text))
        /\ TaskGoes(t, [IdleTask EXCEPT !.handler = "balance", !.pc = "get_info",
                                       !.address = text, !.held = ClientGuard])
    /\ UNCHANGED <<sharedVars, cacheVars, calls, blkVars, mpVars, balVars, peerVars>>

\* get_info returned: Err and a node without UTXO index end the request
TaskBalanceInfo(t) ==
    /\ tasks[t].handler = "balance"
    /\ tasks[t].pc = "get_info"
    /\ \E ok \in BOOLEAN, is_utxo_indexed \in BOOLEAN :
          IF ok /\ is_utxo_indexed
          THEN TaskGoes(t, [tasks[t] EXCEPT
                   !.calls = Append(@, Call("get_info", TRUE, 1)),
                   !.pc = "get_balance_by_address"])
          ELSE TaskReturns(t)
    /\ UNCHANGED <<sharedVars, cacheVars, calls, blkVars, mpVars, balVars, peerVars>>

\* get_balance_by_address returned: Err ends the request
TaskBalanceIndexed(t) ==
    /\ tasks[t].pc = "get_balance_by_address"
    /\ \/ TaskReturns(t)
       \/ \E balance \in ConcBalances :
             TaskGoes(t, [tasks[t] EXCEPT
                 !.indexed_balance = balance,
                 !.calls = Append(@, Call("get_balance_by_address", TRUE, balance)),
                 !.pc = "get_utxos_by_addresses"])
    /\ UNCHANGED <<sharedVars, cacheVars, calls, blkVars, mpVars, balVars, peerVars>>

\* the timed get_utxos_by_addresses answered: the locals are set from the
\* answer, then the handler asks for the write lock of the cache
TaskBalanceUtxosOk(t) ==
    /\ tasks[t].pc = "get_utxos_by_addresses"
    /\ \E utxos \in ConcUtxoResponses :
          TaskGoes(t, [tasks[t] EXCEPT
              !.pending = Some(<< TotalBalance(Some(SumAmounts(utxos)),
                                               tasks[t].indexed_balance),
                                  Some(Len(utxos)),
                                  DisplayUtxos(utxos) >>),
              !.calls = Append(@, Call("get_utxos_by_addresses", TRUE, Len(utxos))),
              !.pc = "balance_cache.write"])
    /\ UNCHANGED <<sharedVars, cacheVars, calls, blkVars, mpVars, balVars, peerVars>>

\* the timed get_utxos_by_addresses failed or ran out of time: the locals
\* keep their initial values
TaskBalanceUtxosFail(t) ==
    /\ tasks[t].pc = "get_utxos_by_addresses"
    /\ TaskGoes(t, [tasks[t] EXCEPT
           !.pending = Some(<< TotalBalance(None, tasks[t].indexed_balance),
                               None, << >> >>),
           !.calls = Append(@, Call("get_utxos_by_addresses", FALSE, 0)),
           !.pc = "balance_cache.write"])
    /\ UNCHANGED <<sharedVars, cacheVars, calls, blkVars, mpVars, balVars, peerVars>>

\* state.balance_cache.write().await is granted
TaskBalanceWriteLock(t) ==
    /\ tasks[t].pc = "balance_cache.write"
    /\ CanWrite(t, "balance_cache")
    /\ TaskGoes(t, [tasks[t] EXCEPT !.held = @ \cup {<<"balance_cache", "write">>},
                                   !.pc = "store_balance"])
    /\ UNCHANGED <<sharedVars, cacheVars, calls, blkVars, mpVars, balVars, peerVars>>

\* cache.insert(address.clone(), (total_balance, utxo_count_total,
\* display_utxos.clone())); the block ends and the handler returns
TaskBalanceStore(t) ==
    /\ tasks[t].pc = "store_balance"
    /\ balance_cache' = MapInsert(balance_cache, tasks[t].address,
                                  Unwrap(tasks[t].pending))
    /\ TaskReturns(t)
    /\ UNCHANGED <<sharedVars, peer_info, mempool_cache, calls, blkVars, mpVars,
                   balVars, peerVars>>

\* get_peer_info starts: with a client it asks get_info, without one it goes
\* to the cached list
TaskPeerStart(t) ==
    /\ phase = "serving"
    /\ tasks[t].pc = "idle"
    /\ TaskGoes(t, IF IsSome(client)
                   THEN [IdleTask EXCEPT !.handler = "peers", !.pc = "get_info",
                                         !.held = ClientGuard]
                   ELSE [IdleTask EXCEPT !.handler = "peers", !.pc = "peer_info.read",
                                         !.last_seen = "disconnected",
                                         !.held = ClientGuard])
    /\ UNCHANGED <<sharedVars, cacheVars, calls, blkVars, mpVars, balVars, peerVars>>

\* get_info answered: the list is built, then the handler asks for the write
\* lock of the cache
TaskPeerInfoOk(t) ==
    /\ tasks[t].handler = "peers"
    /\ tasks[t].pc = "get_info"
    /\ TaskGoes(t, [tasks[t] EXCEPT !.pending = Some(ConnectedPeerList),
                                   !.calls = Append(@, Call("get_info", TRUE, 0)),
                                   !.pc = "peer_info.write"])
    /\ UNCHANGED <<sharedVars, cacheVars, calls, blkVars, mpVars, balVars, peerVars>>

\* get_info failed: the handler goes to the cached list
TaskPeerInfoErr(t) ==
    /\ tasks[t].handler = "peers"
    /\ tasks[t].pc = "get_info"
    /\ TaskGoes(t, [tasks[t] EXCEPT !.last_seen = "error",
                                   !.calls = Append(@, Call("get_info", FALSE, 0)),
                                   !.pc = "peer_info.read"])
    /\ UNCHANGED <<sharedVars, cacheVars, calls, blkVars, mpVars, balVars, peerVars>>

\* state.peer_info.write().await is granted
TaskPeerWriteLock(t) ==
    /\ tasks[t].pc = "peer_info.write"
    /\ CanWrite(t, "peer_info")
    /\ TaskGoes(t, [tasks[t] EXCEPT !.held = @ \cup {<<"peer_info", "write">>},
                                   !.pc = "store_peers"])
    /\ UNCHANGED <<sharedVars, cacheVars, calls, blkVars, mpVars, balVars, peerVars>>

\* *peer_cache = peer_list.clone(); the block ends and the handler returns
TaskPeerStore(t) ==
    /\ tasks[t].pc = "store_peers"
    /\ peer_info' = Unwrap(tasks[t].pending)
    /\ TaskReturns(t)
    /\ UNCHANGED <<sharedVars, balance_cache, mempool_cache, calls, blkVars, mpVars,
                   balVars, peerVars>>

\* let peer_cache = state.peer_info.read().await is granted; with an empty
\* cache the handler next awaits state.network_info.read(), the guard in hand
TaskPeerReadLock(t) ==
    /\ tasks[t].pc = "peer_info.read"
    /\ CanRead(t, "peer_info")
    /\ TaskGoes(t, [tasks[t] EXCEPT !.held = @ \cup {<<"peer_info", "read">>},
                                   !.pc = "network_info.read"])
    /\ UNCHANGED <<sharedVars, cacheVars, calls, blkVars, mpVars, balVars, peerVars>>

\* the cached list, or the made-up entry, is returned
TaskPeerAnswer(t) ==
    /\ tasks[t].pc = "network_info.read"
    /\ TaskReturns(t)
    /\ UNCHANGED <<sharedVars, cacheVars, calls, blkVars, mpVars, balVars, peerVars>>

\* the request is abandoned (the connection to its caller closed): the task is
\* dropped at the suspension point it is at, and its guards with it
TaskAbandoned(t) ==
    /\ tasks[t].pc \in RpcPcs \cup LockWaitPcs
    /\ TaskReturns(t)
    /\ UNCHANGED <<sharedVars, cacheVars, calls, blkVars, mpVars, balVars, peerVars>>

ConcurrentNext ==
    \/ StartupNext
    \/ \E t \in TaskIds : TaskMempoolStart(t)
    \/ \E t \in TaskIds : TaskMempoolEntriesErr(t)
    \/ \E t \in TaskIds : TaskMempoolEntriesOk(t)
    \/ \E t \in TaskIds : TaskMempoolWriteLock(t)
    \/ \E t \in TaskIds : TaskMempoolStore(t)
    \/ \E t \in TaskIds : TaskMempoolReadLock(t)
    \/ \E t \in TaskIds : TaskMempoolCheck(t)
    \/ \E t \in TaskIds : TaskMempoolInfo(t)
    \/ \E t \in TaskIds : TaskBalanceStart(t)
    \/ \E t \in TaskIds : TaskBalanceInfo(t)
    \/ \E t \in TaskIds : TaskBalanceIndexed(t)
    \/ \E t \in TaskIds : TaskBalanceUtxosOk(t)
    \/ \E t \in TaskIds : TaskBalanceUtxosFail(t)
    \/ \E t \in TaskIds : TaskBalanceWriteLock(t)
    \/ \E t \in TaskIds : TaskBalanceStore(t)
    \/ \E t \in TaskIds : TaskPeerStart(t)
    \/ \E t \in TaskIds : TaskPeerInfoOk(t)
    \/ \E t \in TaskIds : TaskPeerInfoErr(t)
    \/ \E t \in TaskIds : TaskPeerWriteLock(t)
    \/ \E t \in TaskIds : TaskPeerStore(t)
    \/ \E t \in TaskIds : TaskPeerReadLock(t)
    \/ \E t \in TaskIds : TaskPeerAnswer(t)
    \/ \E t \in TaskIds : TaskAbandoned(t)

SpecConcurrent == Init /\ [][ConcurrentNext]_vars

(***************************************************************************)
(* Properties of get_blocks                                                *)
(***************************************************************************)
\* every node call of the request in progress returned Ok
AllCallsOk == \A i \in 1..Len(calls) : calls[i].ok

\* the parent the selected-parent chain follows from a block of the DAG: its
\* verbose selected parent when there is a non-zero one, else its first
\* level-0 parent; 0 when the block has neither
ChainParent(block) ==
    IF Len(block.verbose_data) > 0
       /\ block.verbose_data[1].selected_parent_hash # 0
    THEN block.verbose_data[1].selected_parent_hash
    ELSE IF Len(block.parents_by_level) > 0 /\ Len(block.parents_by_level[1]) > 0
    THEN block.parents_by_level[1][1]
    ELSE 0

\* the length of the selected-parent chain of DAG d from hash h down to a
\* block with no parents; -1 when the chain runs into a block the node lacks
RECURSIVE ChainLen(_, _)
ChainLen(d, h) ==
    IF h \notin DOMAIN d.blocks THEN -1
    ELSE IF ChainParent(d.blocks[h]) = 0 THEN 1
    ELSE LET rest == ChainLen(d, ChainParent(d.blocks[h]))
         IN  IF rest < 0 THEN -1 ELSE rest + 1

\* C1: the tip-chain walk never holds or returns more than MAX_BLOCKS blocks;
\* and when the node answers every call and the selected-parent chain from the
\* sink has length L < MAX_BLOCKS and ends in a block with no parents, the
\* walk succeeds and returns exactly L blocks.
C1_WalkBoundedAndExact ==
    /\ Len(display_blocks) <= MAX_BLOCKS
    /\ blk_pc = "done" =>
         LET r == Unwrap(blk_result)
             L == ChainLen(Unwrap(node_dag), Unwrap(node_dag).sink)
         IN  /\ IsSome(r.body) => Len(Unwrap(r.body).blocks) <= MAX_BLOCKS
             /\ (IsSome(client) /\ AllCallsOk /\ L >= 1 /\ L < MAX_BLOCKS) =>
                   /\ r.status = OK
                   /\ IsSome(r.body)
                   /\ Len(Unwrap(r.body).blocks) = L

\* a walk that ended cleanly on a chain shorter than both MAX_BLOCKS and the DAG
C1_Witness ==
    /\ blk_pc = "done"
    /\ Unwrap(blk_result).status = OK
    /\ AllCallsOk
    /\ LET L == ChainLen(Unwrap(node_dag), Unwrap(node_dag).sink)
       IN  /\ L > 2
           /\ L < MAX_BLOCKS
           /\ L < Unwrap(node_dag).block_count
           /\ Len(Unwrap(Unwrap(blk_result).body).blocks) = L

\* C9: when the DAG-info call or any block fetch fails, the walk ends with
\* INTERNAL_SERVER_ERROR (UpstreamError) and carries no blocks; no response
\* with a body follows a failed node call.
C9_UpstreamErrorNoPartial ==
    blk_pc = "done" /\ ~AllCallsOk =>
        /\ Unwrap(blk_result).status = INTERNAL_SERVER_ERROR
        /\ Unwrap(blk_result).body = None

\* a fetch failed after some blocks had been collected
C9_Witness ==
    /\ blk_pc = "done"
    /\ ~AllCallsOk
    /\ Len(display_blocks) >= 2
    /\ Unwrap(blk_result).status = INTERNAL_SERVER_ERROR
    /\ Unwrap(blk_result).body = None

\* the block views a request has collected and, once it answered OK, returned
BlockViews ==
    IF blk_pc = "done" /\ Unwrap(blk_result).status = OK
    THEN Unwrap(Unwrap(blk_result).body).blocks
    ELSE display_blocks

\* the block of the node's DAG a view was made from
BlockOfView(view) ==
    LET blocks == Unwrap(node_dag).blocks
    IN  blocks[CHOOSE h \in DOMAIN blocks : HashToString(h) = view.hash]

\* the raw level-0 parent list of a block, as the node sent it
RawParents(block) ==
    IF block.parents_by_level = << >> THEN << >> ELSE block.parents_by_level[1]

\* the first occurrences of a list, in the order of the list
FirstSeen(raw) ==
    LET kept == {i \in 1..Len(raw) : \A j \in 1..(i - 1) : raw[j] # raw[i]}
    IN  [k \in 1..Cardinality(kept) |->
            raw[CHOOSE i \in kept : Cardinality({j \in kept : j <= i}) = k]]

\* the hash texts a parents field lists: "None" lists nothing, the others are
\* two-character hash texts separated by ", "
ListedParents(parents) ==
    IF parents = StrNone THEN << >>
    ELSE [k \in 1..((Len(parents) + 2) \div 4) |->
             SubSeq(parents, 4 * k - 3, 4 * k - 2)]

\* C12: the parent list of every block view names no hash twice and lists the
\* level-0 parents of its block in first-seen order, also when the raw list
\* names a hash more than once; a block without level-0 parents has an empty
\* parent list (the text "None").
C12_ParentsDistinctFirstSeen ==
    \A i \in 1..Len(BlockViews) :
        LET view == BlockViews[i]
            raw == RawParents(BlockOfView(view))
            listed == ListedParents(view.parents)
        IN  /\ \A a, b \in 1..Len(listed) : a # b => listed[a] # listed[b]
            /\ listed = [k \in 1..Len(FirstSeen(raw)) |->
                            HashToString(FirstSeen(raw)[k])]
            /\ raw = << >> <=> view.parents = StrNone
            /\ view.parents # StrNone =>
                  Len(view.parents) = 4 * Len(listed) - 2

\* a returned walk with a block whose raw parent list repeats a hash and lists
\* two distinct parents, and a block without level-0 parents
C12_Witness ==
    /\ blk_pc = "done"
    /\ Unwrap(blk_result).status = OK
    /\ \E i, j \in 1..Len(BlockViews) :
        LET raw == RawParents(BlockOfView(BlockViews[i]))
        IN  /\ Len(raw) = 4
            /\ raw[1] = raw[2] /\ raw[3] # raw[1] /\ raw[4] = raw[1]
            /\ Len(ListedParents(BlockViews[i].parents)) = 2
            /\ RawParents(BlockOfView(BlockViews[j])) = << >>
            /\ BlockViews[j].parents = StrNone

\* C14: the first block of the walk is the sink the DAG-info call reported;
\* each following block is the one at the previous block's verbose selected
\* parent when that is present and non-zero, else at its first level-0
\* parent; the walk goes on from no block that has neither, and an OK answer
\* short of MAX_BLOCKS ends at such a block; the blocks are listed newest
\* first.
C14_WalkFollowsSelectedParents ==
    IsSome(node_dag) =>
        LET d == Unwrap(node_dag)
            views == BlockViews
            n == Len(views)
        IN  /\ n >= 1 => views[1].hash = HashToString(d.sink)
            /\ \A i \in 1..(n - 1) :
                  LET parent == ChainParent(BlockOfView(views[i]))
                  IN  /\ parent # 0
                      /\ views[i + 1].hash = HashToString(parent)
                      /\ views[i + 1].level < views[i].level
            /\ blk_pc = "get_block" =>
                  current_hash = IF n = 0 THEN d.sink
                                 ELSE ChainParent(BlockOfView(views[n]))
            /\ blk_pc = "done" /\ Unwrap(blk_result).status = OK =>
                  /\ n >= 1
                  /\ n < MAX_BLOCKS => ChainParent(BlockOfView(views[n])) = 0

\* a returned walk, shorter than MAX_BLOCKS, that followed a verbose selected
\* parent which is not the first level-0 parent, and fell back to the first
\* level-0 parent of a block without a usable selected parent
C14_Witness ==
    /\ blk_pc = "done"
    /\ Unwrap(blk_result).status = OK
    /\ Len(BlockViews) < MAX_BLOCKS
    /\ \E i, j \in 1..(Len(BlockViews) - 1) :
        LET bi == BlockOfView(BlockViews[i])
            bj == BlockOfView(BlockViews[j])
        IN  /\ IsSome(bi.verbose_data)
            /\ Unwrap(bi.verbose_data).selected_parent_hash # HashDefault
            /\ RawParents(bi) # << >> /\ RawParents(bj) # << >>
            /\ Unwrap(bi.verbose_data).selected_parent_hash # RawParents(bi)[1]
            /\ BlockViews[i + 1].hash
                  = HashToString(Unwrap(bi.verbose_data).selected_parent_hash)
            /\ \/ ~IsSome(bj.verbose_data)
               \/ Unwrap(bj.verbose_data).selected_parent_hash = HashDefault
            /\ BlockViews[j + 1].hash = HashToString(RawParents(bj)[1])

(***************************************************************************)
(* Properties of get_mempool                                               *)
(***************************************************************************)
\* every get_mempool_entries attempt of the request in progress failed
MempoolAttemptsExhausted ==
    /\ Len(calls) >= MEMPOOL_ATTEMPTS
    /\ \A i \in 1..MEMPOOL_ATTEMPTS :
          calls[i].op = "get_mempool_entries" /\ ~calls[i].ok

\* the request in progress made the get_info call of the last resort
MempoolAskedInfo ==
    /\ Len(calls) = MEMPOOL_ATTEMPTS + 1
    /\ calls[MEMPOOL_ATTEMPTS + 1].op = "get_info"

\* C2 as stated: the mempool request never ends in an error, in any reachable
\* state of the service.
C2_Original_NeverFails ==
    mp_pc = "done" =>
        /\ Unwrap(mp_result).status = OK
        /\ IsSome(Unwrap(mp_result).body)

\* C2: with a client handle the mempool request always ends by returning a
\* snapshot, whatever the node calls do; without one (the start-up connection
\* failed) it ends with SERVICE_UNAVAILABLE.
C2_NeverFailsWhenConnected ==
    mp_pc = "done" =>
        IF IsSome(client)
        THEN /\ Unwrap(mp_result).status = OK
             /\ IsSome(Unwrap(mp_result).body)
        ELSE /\ Unwrap(mp_result).status = SERVICE_UNAVAILABLE
             /\ Unwrap(mp_result).body = None

\* every node call of the request failed, get_info included, and a snapshot
\* was returned all the same
C2_Witness ==
    /\ mp_pc = "done"
    /\ IsSome(client)
    /\ MempoolAttemptsExhausted
    /\ MempoolAskedInfo
    /\ \A i \in 1..Len(calls) : ~calls[i].ok
    /\ Unwrap(mp_result).status = OK
    /\ IsSome(Unwrap(mp_result).body)

\* C3 as stated: all attempts failed and nothing is cached, so the snapshot
\* has size 0 and no transactions.
C3_Original_EmptyAfterRetries ==
    (mp_pc = "done" /\ MempoolAttemptsExhausted /\ mempool_cache = None) =>
        /\ Unwrap(Unwrap(mp_result).body).size = 0
        /\ Unwrap(Unwrap(mp_result).body).transactions = << >>

\* C3: when all attempts failed and nothing is cached, the snapshot has no
\* transactions and its size is the mempool_size of the get_info answer, or 0
\* when get_info failed too.
C3_SizeOnlyAfterRetries ==
    (mp_pc = "done" /\ MempoolAttemptsExhausted /\ mempool_cache = None) =>
        /\ MempoolAskedInfo
        /\ Unwrap(mp_result).status = OK
        /\ Unwrap(Unwrap(mp_result).body).transactions = << >>
        /\ Unwrap(Unwrap(mp_result).body).size =
              IF calls[MEMPOOL_ATTEMPTS + 1].ok
              THEN calls[MEMPOOL_ATTEMPTS + 1].ret
              ELSE 0

\* all attempts failed with nothing cached, and get_info reported a size
C3_Witness ==
    /\ mp_pc = "done"
    /\ MempoolAttemptsExhausted
    /\ mempool_cache = None
    /\ MempoolAskedInfo
    /\ calls[MEMPOOL_ATTEMPTS + 1].ok
    /\ Unwrap(Unwrap(mp_result).body).size = calls[MEMPOOL_ATTEMPTS + 1].ret
    /\ Unwrap(Unwrap(mp_result).body).size > 0

\* positions i < j of a list of (id, entry) pairs are in id order
IdOrdered(pairs) ==
    \A i \in 1..(Len(pairs) - 1) : ~StrLess(pairs[i + 1][1], pairs[i][1])

\* C10: after a successful fetch of totalEntries entries the view reports
\* size = totalEntries and a window of min(MAX_DISPLAY, totalEntries)
\* transactions, which are the entries of the id-sorted list at positions
\* start, start + 1, ... (wrapping), start = seed mod totalEntries; the
\* positions are pairwise distinct.
C10_WindowIsWrapAroundRun ==
    (mp_pc = "done" /\ IsSome(mp_response)) =>
        LET response == Unwrap(mp_response)
            total == Len(response)
            view == Unwrap(Unwrap(mp_result).body)
            sorted == SortById(EntriesWithId(response))
            first == IF total = 0 THEN 0 ELSE Seed(sorted) % total
            Position(i) == (first + i - 1) % total
        IN  /\ Unwrap(mp_result).status = OK
            /\ view.size = total
            /\ Len(view.transactions) = Min(MAX_DISPLAY, total)
            /\ Len(sorted) = total
            /\ IdOrdered(sorted)
            /\ \A i \in 1..Len(view.transactions) :
                  /\ view.transactions[i].id = sorted[Position(i) + 1][1]
                  /\ view.transactions[i] = MkTransactionInfo(sorted[Position(i) + 1])
            /\ \A i, j \in 1..Len(view.transactions) :
                  i # j => Position(i) # Position(j)

\* a fetch of more than MAX_DISPLAY entries whose window starts inside the
\* list and wraps past its end
C10_Witness ==
    /\ mp_pc = "done"
    /\ IsSome(mp_response)
    /\ Len(Unwrap(mp_response)) > MAX_DISPLAY
    /\ LET total == Len(Unwrap(mp_response))
           first == Seed(SortById(EntriesWithId(Unwrap(mp_response)))) % total
       IN  /\ first > 0
           /\ first + MAX_DISPLAY > total
    /\ Len(Unwrap(Unwrap(mp_result).body).transactions) = MAX_DISPLAY
    /\ Unwrap(Unwrap(mp_result).body).size = Len(Unwrap(mp_response))

\* the identifiers of the entries of an answer, in the node's order
ResponseIds(response) == [i \in 1..Len(response) |-> EntryId(response[i])]

\* the identifiers of the transactions of a view
WindowIds(info) == [i \in 1..Len(info.transactions) |-> info.transactions[i].id]

\* two lists name the same identifiers, each as often as the other
SameIds(a, b) ==
    /\ Len(a) = Len(b)
    /\ \A i \in 1..Len(a) :
          Cardinality({j \in 1..Len(a) : a[j] = a[i]})
              = Cardinality({j \in 1..Len(b) : b[j] = a[i]})

\* a successful fetch ends in this step while the cache holds the snapshot of
\* an earlier successful fetch that shows every one of its entries, and the
\* two answers carry the same identifiers
SameIdsFetchedAgain ==
    /\ mp_pc = "attempt" /\ mp_pc' = "done" /\ IsSome(mp_response')
    /\ IsSome(mempool_cache)
    /\ Unwrap(mempool_cache).info.size
          = Len(Unwrap(mempool_cache).info.transactions)
    /\ SameIds(WindowIds(Unwrap(mempool_cache).info),
               ResponseIds(Unwrap(mp_response')))

MempoolFallbackAnswers == mp_pc = "fallback" /\ mp_pc' = "done"

\* C15: when every attempt failed, the cached snapshot is the answer if and
\* only if there is one and its age is at most STALE_SECS seconds, and then no
\* further node call is made; otherwise, and so for every older snapshot, the
\* request asks get_info and answers with a size-only view: the size get_info
\* reported, or 0 when that call failed too, and no transactions.
C15_CachedServedIffFresh ==
    [][MempoolFallbackAnswers =>
          LET fresh == /\ mempool_cache # None
                       /\ now - mempool_cache[1].ts <= STALE_SECS
              answer == mp_result'[1]
              last == calls'[Len(calls')]
          IN  /\ MempoolAttemptsExhausted
              /\ answer.status = OK
              /\ fresh => /\ answer.body = <<mempool_cache[1].info>>
                          /\ calls' = calls
              /\ ~fresh => /\ Len(calls') = Len(calls) + 1
                           /\ last.op = "get_info"
                           /\ answer.body[1].transactions = << >>
                           /\ answer.body[1].size
                                 = IF last.ok THEN last.ret ELSE 0]_vars

\* a request whose attempts all failed found a snapshot one second too old and
\* answered with the size get_info reported
C15_Witness ==
    /\ mp_pc = "done"
    /\ MempoolAttemptsExhausted
    /\ MempoolAskedInfo
    /\ IsSome(mempool_cache)
    /\ now - Unwrap(mempool_cache).ts = STALE_SECS + 1
    /\ Unwrap(mempool_cache).info.size > 0
    /\ Unwrap(Unwrap(mp_result).body).size = 7
    /\ Unwrap(Unwrap(mp_result).body).transactions = << >>

\* the positions of the get_mempool_entries calls in the log of the request
EntriesCalls == {i \in 1..Len(calls) : calls[i].op = "get_mempool_entries"}

\* the first three calls of the request are failed get_mempool_entries calls
ThreeFailures ==
    /\ Len(calls) >= 3
    /\ \A i \in 1..3 : i \in EntriesCalls /\ ~calls[i].ok

\* what C16 says of every state of a mempool request
C16_Attempts ==
    /\ Cardinality(EntriesCalls) <= 3
    /\ \A i \in EntriesCalls : calls[i].ok => i = Len(calls)
    /\ mp_pc = "attempt" => Len(calls) < 3 /\ EntriesCalls = 1..Len(calls)
    /\ mp_pc = "fallback" => ThreeFailures /\ Len(calls) = 3
    /\ (\E i \in 1..Len(calls) : calls[i].op = "get_info") => ThreeFailures
    /\ mp_pc = "done" /\ IsSome(client) /\ ~IsSome(mp_response) => ThreeFailures
    /\ mp_pc = "done" /\ Len(calls) > 0 /\ calls[Len(calls)].ok
          /\ Len(calls) \in EntriesCalls /\ calls[Len(calls)].ret = 0 =>
            /\ Len(calls) <= 3
            /\ mp_response = Some(<< >>)
            /\ Unwrap(mp_result).status = OK
            /\ Unwrap(Unwrap(mp_result).body).size = 0
            /\ Unwrap(Unwrap(mp_result).body).transactions = << >>

\* C16: a mempool request calls get_mempool_entries at most 3 times, makes no
\* call after the first one that succeeds, and is in the fallback path only
\* after 3 failed calls; a call that succeeds with zero entries is a success
\* (no retry, no fallback, size 0, no transactions); and every request that
\* has begun its attempts gets its answer.
C16_BoundedAttemptsAndTermination ==
    /\ []C16_Attempts
    /\ (mp_pc = "attempt") ~> (mp_pc = "done")

\* a request answered by a second attempt that succeeded with zero entries
C16_Witness ==
    /\ mp_pc = "done"
    /\ Len(calls) = 2
    /\ ~calls[1].ok
    /\ calls[2] = Call("get_mempool_entries", TRUE, 0)
    /\ Unwrap(mp_result) = RespOk([size |-> 0, transactions |-> << >>])

(***************************************************************************)
(* Properties of get_address_balance                                       *)
(***************************************************************************)
\* the sum of the amounts of the first n entries of a UTXO answer
RECURSIVE AmountOfFirst(_, _)
AmountOfFirst(utxos, n) ==
    IF n = 0 THEN 0
    ELSE AmountOfFirst(utxos, n - 1) + utxos[n].utxo_entry.amount

\* the balance request in progress has ended
BalanceDone == bal_pc = "done"

\* the path parameter of the request in progress does not parse
AddressUnparsable ==
    ~(address.prefix \in AddressPrefixes /\ address.payload \in ValidPayloads)

\* the last node call of the request in progress
LastCall == calls[Len(calls)]

\* the get_info call of the request answered that the node has no UTXO index
ReportedNotIndexed ==
    /\ Len(calls) = 1
    /\ calls[1].op = "get_info"
    /\ calls[1].ok
    /\ calls[1].ret = 0

\* the named node call of the request failed
CallFailed(op) == \E i \in 1..Len(calls) : calls[i].op = op /\ ~calls[i].ok

\* C4: when the indexed balance B and the sum C of the enumerated UTXOs
\* differ, the balance request still succeeds, and both the balance it
\* returns and the balance it stores in the cache under the address equal C.
C4_ComputedBalanceWins ==
    (BalanceDone /\ utxos_outcome = "ok") =>
        LET utxos == Unwrap(utxos_response)
            C == AmountOfFirst(utxos, Len(utxos))
            B == indexed_balance
        IN  C # B =>
              /\ Unwrap(bal_result).status = OK
              /\ Unwrap(Unwrap(bal_result).body).balance = C
              /\ address \in DOMAIN balance_cache
              /\ balance_cache[address][1] = C

\* a request whose non-zero indexed balance differs from the sum of a UTXO
\* set larger than the display list
C4_Witness ==
    /\ BalanceDone
    /\ utxos_outcome = "ok"
    /\ Len(Unwrap(utxos_response)) > MAX_UTXO_DISPLAY
    /\ indexed_balance > 0
    /\ indexed_balance # AmountOfFirst(Unwrap(utxos_response),
                                       Len(Unwrap(utxos_response)))
    /\ Unwrap(bal_result).status = OK
    /\ balance_cache[address][1] = Unwrap(Unwrap(bal_result).body).balance
    /\ balance_cache[address][1] # indexed_balance

\* C5: when the enumeration times out or fails after the indexed-balance call
\* succeeded, the request succeeds with no computed balance, no UTXO count, an
\* empty display list and the indexed balance as balance.
C5_DegradesToIndexedBalance ==
    (BalanceDone /\ utxos_outcome \in {"err", "timeout"}) =>
        /\ Unwrap(bal_result).status = OK
        /\ computed_balance = None
        /\ Unwrap(Unwrap(bal_result).body).utxo_count_total = None
        /\ Unwrap(Unwrap(bal_result).body).utxos = << >>
        /\ Unwrap(Unwrap(bal_result).body).balance = indexed_balance
        /\ calls[2] = Call("get_balance_by_address", TRUE, indexed_balance)

\* a timed-out enumeration after a non-zero indexed balance
C5_Witness ==
    /\ BalanceDone
    /\ utxos_outcome = "timeout"
    /\ indexed_balance > 0
    /\ Unwrap(bal_result).status = OK
    /\ Unwrap(Unwrap(bal_result).body).balance = indexed_balance

\* C6 as stated: every address text that fails to parse yields InvalidInput
\* (BAD_REQUEST), with no node call issued.
C6_Original_InvalidInputFirst ==
    (BalanceDone /\ AddressUnparsable) =>
        /\ Unwrap(bal_result).status = BAD_REQUEST
        /\ calls = << >>

\* C6: an address text that fails to parse yields BAD_REQUEST (InvalidInput)
\* when a client handle is present and SERVICE_UNAVAILABLE when there is none;
\* either way no node call is issued by the request.
C6_InvalidInputWhenConnected ==
    (BalanceDone /\ AddressUnparsable) =>
        /\ calls = << >>
        /\ Unwrap(bal_result).body = None
        /\ Unwrap(bal_result).status =
              IF IsSome(client) THEN BAD_REQUEST ELSE SERVICE_UNAVAILABLE

\* an unparsable address answered with BAD_REQUEST and no node call
C6_Witness ==
    /\ BalanceDone
    /\ AddressUnparsable
    /\ IsSome(client)
    /\ Unwrap(bal_result).status = BAD_REQUEST
    /\ calls = << >>

\* C7 as stated: InvalidAddress whenever the address fails to parse;
\* ServiceUnavailable when (the address parses and) there is no client or the
\* node reports no UTXO index; UpstreamError when the indexed-balance call
\* fails.
C7_Original_KindPerCause ==
    BalanceDone =>
        /\ AddressUnparsable => Unwrap(bal_result).status = BAD_REQUEST
        /\ (~AddressUnparsable /\ (~IsSome(client) \/ ReportedNotIndexed)) =>
              Unwrap(bal_result).status = SERVICE_UNAVAILABLE
        /\ CallFailed("get_balance_by_address") =>
              Unwrap(bal_result).status = INTERNAL_SERVER_ERROR

\* C7: the balance request reports ServiceUnavailable when there is no
\* client, whatever the address; InvalidAddress when there is a client and the
\* address fails to parse; ServiceUnavailable when the node reports no UTXO
\* index; UpstreamError when the info call or the indexed-balance call fails;
\* and each status is reported for these causes only.
C7_KindPerCause ==
    BalanceDone =>
        LET status == Unwrap(bal_result).status
        IN  /\ ~IsSome(client) => status = SERVICE_UNAVAILABLE
            /\ (IsSome(client) /\ AddressUnparsable) => status = BAD_REQUEST
            /\ ReportedNotIndexed => status = SERVICE_UNAVAILABLE
            /\ CallFailed("get_info") => status = INTERNAL_SERVER_ERROR
            /\ CallFailed("get_balance_by_address") => status = INTERNAL_SERVER_ERROR
            /\ status = BAD_REQUEST => IsSome(client) /\ AddressUnparsable
            /\ status = SERVICE_UNAVAILABLE => ~IsSome(client) \/ ReportedNotIndexed
            /\ status = INTERNAL_SERVER_ERROR =>
                  CallFailed("get_info") \/ CallFailed("get_balance_by_address")
            /\ status \in {OK, BAD_REQUEST, SERVICE_UNAVAILABLE, INTERNAL_SERVER_ERROR}
            /\ Cardinality({BAD_REQUEST, SERVICE_UNAVAILABLE,
                            INTERNAL_SERVER_ERROR}) = 3

\* a request stopped by the failure of the indexed-balance call
C7_Witness ==
    /\ BalanceDone
    /\ IsSome(client)
    /\ CallFailed("get_balance_by_address")
    /\ Unwrap(bal_result).status = INTERNAL_SERVER_ERROR

\* the node calls of a balance request, in the order the handler makes them
BalanceCallOrder ==
    <<"get_info", "get_balance_by_address", "get_utxos_by_addresses">>

\* the request in progress has issued the UTXO enumeration
EnumerationIssued ==
    \E i \in 1..Len(calls) : calls[i].op = "get_utxos_by_addresses"

\* C17: the node calls of a balance request are the precondition info call,
\* then the indexed-balance call, then the UTXO enumeration, each made once
\* and only after the call before it succeeded; the enumeration is never
\* issued when the address did not parse, when the info call failed or
\* reported no UTXO index, or when the indexed-balance call failed.
C17_CallOrder ==
    /\ Len(calls) <= 3
    /\ \A i \in 1..Len(calls) :
          /\ calls[i].op = BalanceCallOrder[i]
          /\ i > 1 => calls[i - 1].ok
    /\ Len(calls) >= 2 => calls[1].ret = 1
    /\ Len(calls) >= 1 => ~AddressUnparsable /\ IsSome(client)
    /\ bal_pc = "get_balance" => Len(calls) = 1
    /\ bal_pc = "get_utxos" => Len(calls) = 2
    /\ (\/ AddressUnparsable
        \/ CallFailed("get_info")
        \/ (Len(calls) >= 1 /\ calls[1].ok /\ calls[1].ret = 0)
        \/ CallFailed("get_balance_by_address")) => ~EnumerationIssued

\* a request that made all three calls, and the enumeration answered
C17_Witness ==
    /\ BalanceDone
    /\ Len(calls) = 3
    /\ EnumerationIssued
    /\ calls[3].ok
    /\ Unwrap(bal_result).status = OK

\* C20: when the enumeration succeeds with n UTXOs, the computed balance is
\* the sum of the amounts of all n of them, the count reported is n, and the
\* display list holds the first min(n, 100) UTXOs in the order of the
\* enumeration, each with its outpoint text and amount.
C20_SumOfAllDisplayOfFirst ==
    (BalanceDone /\ utxos_outcome = "ok") =>
        LET utxos == Unwrap(utxos_response)
            n == Len(utxos)
            body == Unwrap(Unwrap(bal_result).body)
        IN  /\ computed_balance = Some(AmountOfFirst(utxos, n))
            /\ body.balance = AmountOfFirst(utxos, n)
            /\ body.utxo_count_total = Some(n)
            /\ Len(body.utxos) = IF n < 100 THEN n ELSE 100
            /\ \A i \in 1..Len(body.utxos) :
                  /\ body.utxos[i].amount = utxos[i].utxo_entry.amount
                  /\ body.utxos[i].outpoint
                        = HashToString(utxos[i].outpoint.transaction_id)
                          \o StrColon \o DecToString(utxos[i].outpoint.index)

\* an enumeration of more than 100 UTXOs, whose sum is not the sum of the
\* UTXOs displayed
C20_Witness ==
    /\ BalanceDone
    /\ utxos_outcome = "ok"
    /\ Len(Unwrap(utxos_response)) = MAX_UTXO_DISPLAY + 1
    /\ Len(Unwrap(Unwrap(bal_result).body).utxos) = MAX_UTXO_DISPLAY
    /\ Unwrap(Unwrap(bal_result).body).utxo_count_total
          = Some(MAX_UTXO_DISPLAY + 1)
    /\ Unwrap(Unwrap(bal_result).body).balance
          > AmountOfFirst(Unwrap(utxos_response), MAX_UTXO_DISPLAY)

(***************************************************************************)
(* Properties of get_peer_info                                             *)
(***************************************************************************)
\* the self-entry of a snapshot taken while the node answered
ConnectedSelf ==
    [ id |-> "local", address |-> cli.kaspad_url, is_connected |-> TRUE,
      last_seen |-> "now" ]

\* a list holds the given entry
Holds(list, entry) == \E i \in 1..Len(list) : list[i] = entry

\* the step ends a peer request
PeerRequestEnds == peer_pc # "done" /\ peer_pc' = "done"

\* C8: every peer request ends with a snapshot, never an error. A request
\* that reached the node returns a snapshot holding the self-entry marked
\* connected and stores that snapshot in the peer cache. A request that could
\* not reach the node (get_info failed, or there is no client) leaves the
\* cache as it was and returns the cached snapshot; only when the cache is
\* empty does it return one made-up self-entry marked disconnected.
C8_PeerViewFallsBack ==
    [][ PeerRequestEnds =>
          LET returned == Unwrap(Unwrap(peer_result').body)
              reached == peer_log'[Len(peer_log')] = "ok"
          IN  /\ Unwrap(peer_result').status = OK
              /\ IsSome(Unwrap(peer_result').body)
              /\ reached =>
                    /\ Holds(returned, ConnectedSelf)
                    /\ peer_info' = returned
              /\ ~reached =>
                    /\ peer_info' = peer_info
                    /\ peer_info # << >> => returned = peer_info
                    /\ peer_info = << >> =>
                          /\ Len(returned) = 1
                          /\ returned[1].address = cli.kaspad_url
                          /\ ~returned[1].is_connected
    ]_vars

\* a request that failed to reach the node after an earlier one had reached
\* it, answered with the cached snapshot
C8_Witness ==
    /\ peer_pc = "done"
    /\ Len(peer_log) >= 2
    /\ peer_log[Len(peer_log)] = "err"
    /\ \E i \in 1..(Len(peer_log) - 1) : peer_log[i] = "ok"
    /\ peer_info # << >>
    /\ Unwrap(Unwrap(peer_result).body) = peer_info
    /\ Holds(peer_info, ConnectedSelf)


\* some request so far reached the node
PeerContactMade == \E i \in 1..Len(peer_log) : peer_log[i] = "ok"

\* the step is the successful answer of the liveness call of a peer request
PeerContactStep ==
    /\ peer_pc = "get_info"
    /\ calls' = << Call("get_info", TRUE, 0) >>
    /\ peer_log' = Append(peer_log, "ok")

\* C22: the peer cache is empty until a peer request reaches the node, and
\* from then on it holds the snapshot built at the latest successful contact
\* (this node marked connected, and the fixed peer). It changes only in the
\* step in which get_info() answers, and then to the list that request
\* returns; once filled it is never emptied, and no entry of it is marked
\* disconnected: the made-up disconnected self-entry is returned, not stored.
C22_PeerCacheKeepsLastContact ==
    /\ [] ( /\ phase = "starting" => peer_info = << >>
            /\ ~PeerContactMade => peer_info = << >>
            /\ PeerContactMade =>
                  /\ peer_info = ConnectedPeerList
                  /\ Holds(peer_info, ConnectedSelf)
            /\ \A i \in 1..Len(peer_info) : peer_info[i].is_connected )
    /\ [][ /\ peer_info' # peer_info =>
                 /\ PeerContactStep
                 /\ peer_info' = Unwrap(Unwrap(peer_result').body)
           /\ peer_info # << >> => peer_info' # << >>
         ]_vars

\* a first request failed and got the made-up entry while the cache stayed
\* empty, a second one reached the node, a third one failed again and the
\* cache still holds the second one's snapshot
C22_Witness ==
    /\ peer_pc = "done"
    /\ Len(peer_log) = 3
    /\ peer_log = << "err", "ok", "err" >>
    /\ Len(peer_info) = 2
    /\ peer_info[1].is_connected /\ peer_info[2].is_connected
    /\ calls = << Call("get_info", FALSE, 0) >>

(***************************************************************************)
(* Properties of the service after a failed start-up                       *)
(***************************************************************************)
\* a step taken at or after the failure of the start-up connection attempt
AfterFailedConnect ==
    \/ phase = "starting" /\ phase' = "serving" /\ client' = None
    \/ phase = "serving" /\ client = None

\* no client, no node call made, nothing cached, and no handler past its
\* client check
NothingReachesTheNode ==
    /\ client = None
    /\ ~network_info.is_connected
    /\ calls = << >>
    /\ mempool_cache = None /\ peer_info = << >> /\ DOMAIN balance_cache = {}
    /\ blk_pc \in {"idle", "done"} /\ mp_pc \in {"idle", "done"}
    /\ bal_pc \in {"idle", "done"} /\ peer_pc \in {"idle", "done"}

\* the blocks, mempool and balance requests that ended report
\* SERVICE_UNAVAILABLE and carry no body
DataRequestsUnavailable ==
    /\ blk_pc = "done" =>
          blk_result[1].status = SERVICE_UNAVAILABLE /\ blk_result[1].body = << >>
    /\ mp_pc = "done" =>
          mp_result[1].status = SERVICE_UNAVAILABLE /\ mp_result[1].body = << >>
    /\ bal_pc = "done" =>
          bal_result[1].status = SERVICE_UNAVAILABLE /\ bal_result[1].body = << >>

\* C13 as stated: after a failed start-up connection attempt the client
\* handle stays absent, and every endpoint request reports
\* ServiceUnavailable.
C13_Original_AllUnavailable ==
    [][AfterFailedConnect =>
          /\ client' = None
          /\ DataRequestsUnavailable'
          /\ peer_pc' = "done" => peer_result'[1].status = SERVICE_UNAVAILABLE]_vars

\* C13: after a failed start-up connection attempt the client handle stays
\* absent in every later state and no request makes a node call or writes a
\* cache; every blocks, mempool and balance request reports
\* ServiceUnavailable, and every peers request succeeds with the one made-up
\* entry of this node, marked disconnected.
C13_UnavailableButPeers ==
    [][AfterFailedConnect =>
          /\ NothingReachesTheNode'
          /\ DataRequestsUnavailable'
          /\ peer_pc' = "done" =>
                /\ peer_result'[1].status = OK
                /\ peer_result'[1].body =
                      << << [ id |-> "local-node",
                              address |-> network_info.server_url,
                              is_connected |-> FALSE,
                              last_seen |-> "disconnected" ] >> >>]_vars

\* the four handlers have each answered a request after the failed start-up,
\* the balance request being one for an address that does not parse
C13_Witness ==
    /\ phase = "serving"
    /\ client = None
    /\ blk_pc = "done" /\ mp_pc = "done" /\ bal_pc = "done" /\ peer_pc = "done"
    /\ ~(address.prefix \in AddressPrefixes /\ address.payload \in ValidPayloads)
    /\ bal_result[1].status = SERVICE_UNAVAILABLE
    /\ peer_result[1].status = OK

(***************************************************************************)
(* Properties of concurrent requests                                       *)
(***************************************************************************)
\* the records one fetch can produce for each cache
CompleteMempoolInfos == {MkMempoolInfo(response) : response \in ConcMempoolResponses}

CompleteBalanceRecords ==
    { <<balance, None, << >> >> : balance \in ConcBalances }
    \cup { <<AmountOfFirst(utxos, Len(utxos)), Some(Len(utxos)), DisplayUtxos(utxos)>> :
              utxos \in ConcUtxoResponses }

CompletePeerLists == {ConnectedPeerList}

\* every cache slot is empty or holds one complete record
SlotsComplete ==
    /\ mempool_cache # None => mempool_cache[1].info \in CompleteMempoolInfos
    /\ \A a \in DOMAIN balance_cache : balance_cache[a] \in CompleteBalanceRecords
    /\ peer_info # << >> => peer_info \in CompletePeerLists

\* task t, running the handler, returns in this step and record is what it
\* had built from its own fetch
StoredBy(t, handler, record) ==
    /\ tasks[t].handler = handler
    /\ tasks[t].pending # None
    /\ tasks[t].pending[1] = record
    /\ tasks'[t] = IdleTask

\* a step leaves each cache slot as it was or puts into it the whole record
\* one request built; no entry is removed
SlotsReplacedWhole ==
    /\ mempool_cache' # mempool_cache =>
          \E t \in TaskIds :
              /\ StoredBy(t, "mempool", mempool_cache'[1].info)
              /\ mempool_cache'[1].ts = now
    /\ DOMAIN balance_cache \subseteq DOMAIN balance_cache'
    /\ \A a \in DOMAIN balance_cache' :
          (a \notin DOMAIN balance_cache \/ balance_cache'[a] # balance_cache[a]) =>
              \E t \in TaskIds :
                  StoredBy(t, "balance", balance_cache'[a]) /\ tasks[t].address = a
    /\ peer_info' # peer_info =>
          \E t \in TaskIds : StoredBy(t, "peers", peer_info')

\* C18: with requests running concurrently in any interleaving, and any of
\* them abandoned at any suspension point, every cache slot holds at every
\* moment either what it held before or one complete record built by a single
\* fetch: the balance, the UTXO count and the sample list of a balance entry
\* are those of one request.
C18_SlotsHoldWholeRecords ==
    /\ []SlotsComplete
    /\ [][SlotsReplacedWhole]_vars

\* two requests for one address have built different records, one holds the
\* write lock and the other waits for it, and the entry in the cache is a
\* third record
C18_Witness ==
    \E t, u \in TaskIds :
        /\ tasks[t].pc = "store_balance"
        /\ tasks[u].pc = "balance_cache.write"
        /\ tasks[t].address = tasks[u].address
        /\ tasks[t].pending # tasks[u].pending
        /\ tasks[t].address \in DOMAIN balance_cache
        /\ <<balance_cache[tasks[t].address]>> # tasks[t].pending
        /\ <<balance_cache[tasks[t].address]>> # tasks[u].pending

\* the cache guards a task holds
HeldCaches(t) == {g \in tasks[t].held : g[1] \in CacheLocks}

\* what a cache holds, as an Option
SlotOf(lock) ==
    CASE lock = "mempool_cache" ->
            IF mempool_cache = None THEN None ELSE Some(mempool_cache[1].info)
      [] lock = "peer_info" -> Some(peer_info)
      [] lock = "balance_cache" -> None

\* no node call in flight under a cache guard, and never two cache guards
NoCallUnderCacheGuard ==
    \A t \in TaskIds :
        /\ tasks[t].pc \in RpcPcs => HeldCaches(t) = {}
        /\ Cardinality(HeldCaches(t)) <= 1

\* the next step of a task that holds a cache write guard is the replacement
\* of the entry, and it gives the guard back
WriteGuardForReplacementOnly ==
    \A t \in TaskIds : \A lock \in CacheLocks :
        (<<lock, "write">> \in tasks[t].held /\ tasks'[t] # tasks[t]) =>
            /\ tasks'[t].held = {}
            /\ IF lock = "balance_cache"
               THEN balance_cache'[tasks[t].address] = tasks[t].pending[1]
               ELSE SlotOf(lock)' = tasks[t].pending

\* C19: no node call is in flight while the task that issued it holds a guard
\* of the mempool cache, the balance cache or the peer cache; a task never
\* holds guards of two of these caches; and a cache write guard is held for
\* the replacement of the entry only.
C19_NoCallUnderCacheLock ==
    /\ []NoCallUnderCacheGuard
    /\ [][WriteGuardForReplacementOnly]_vars

\* a task holds the write guard of the mempool cache while another task, which
\* has read that cache and given its read guard back, has get_info in flight
C19_Witness ==
    \E t, u \in TaskIds :
        /\ <<"mempool_cache", "write">> \in tasks[t].held
        /\ tasks[u].handler = "mempool"
        /\ tasks[u].pc = "get_info"
        /\ tasks[u].held = ClientGuard


\* the step in which the request of task t ends
RequestEnds(t) == tasks[t].pc # "idle" /\ tasks'[t].pc = "idle"

\* the last node call that returned to task t was a get_mempool_entries that
\* succeeded
MempoolEntriesSucceeded(t) ==
    LET log == tasks[t].calls
    IN  /\ tasks[t].handler = "mempool"
        /\ log # << >>
        /\ log[Len(log)].op = "get_mempool_entries"
        /\ log[Len(log)].ok

\* the balance request of task t parsed its address, found the node's UTXO
\* index switched on and got the indexed balance
BalancePassedChecks(t) ==
    LET log == tasks[t].calls
    IN  /\ tasks[t].handler = "balance"
        /\ IsSome(AddressTryFrom(tasks[t].address))
        /\ Len(log) >= 2
        /\ log[1] = Call("get_info", TRUE, 1)
        /\ log[2] = Call("get_balance_by_address", TRUE, tasks[t].indexed_balance)

\* the request of task t is on an error path or on a fallback path: a mempool
\* request whose three attempts failed (it is about to serve the cached
\* snapshot or the size-only view), a balance request at a call whose failure
\* ends it, a peer request that answers from the cache
OnErrorOrFallbackPath(t) ==
    \/ /\ tasks[t].handler = "mempool"
       /\ tasks[t].pc \in {"check_mempool", "get_info"}
       /\ Len(tasks[t].calls) = MEMPOOL_ATTEMPTS
       /\ \A i \in 1..Len(tasks[t].calls) : ~tasks[t].calls[i].ok
    \/ /\ tasks[t].handler = "balance"
       /\ tasks[t].pc \in {"get_info", "get_balance_by_address"}
    \/ /\ tasks[t].handler = "peers"
       /\ tasks[t].pc = "network_info.read"

\* the two maps agree on every key but the given one
SameButAt(map, other, key) ==
    /\ DOMAIN other \ {key} = DOMAIN map \ {key}
    /\ \A k \in DOMAIN map \ {key} : other[k] = map[k]

\* C21: a request that ends on an error path or on a fallback path leaves the
\* three caches as they were. The mempool cache changes only in the step that
\* ends a request whose get_mempool_entries call succeeded, never at the
\* return of the cached snapshot or of the size-only view. The balance cache
\* changes only in the step that ends a request whose address parsed, whose
\* get_info reported the UTXO index and whose get_balance_by_address
\* succeeded, and then only at that request's own address.
C21_CachesWrittenOnSuccessOnly ==
    [][ /\ \A t \in TaskIds :
              RequestEnds(t) /\ OnErrorOrFallbackPath(t) => cacheVars' = cacheVars
        /\ mempool_cache' # mempool_cache =>
              \E t \in TaskIds :
                 /\ RequestEnds(t)
                 /\ MempoolEntriesSucceeded(t)
        /\ balance_cache' # balance_cache =>
              \E t \in TaskIds :
                 /\ RequestEnds(t)
                 /\ BalancePassedChecks(t)
                 /\ tasks[t].address \in DOMAIN balance_cache'
                 /\ SameButAt(balance_cache, balance_cache', tasks[t].address)
      ]_vars

\* the mempool cache and the balance cache have been written, and a mempool
\* request whose three attempts failed is about to serve the cached snapshot
C21_Witness ==
    /\ IsSome(mempool_cache)
    /\ DOMAIN balance_cache # {}
    /\ \E t \in TaskIds :
          /\ tasks[t].pc = "check_mempool"
          /\ OnErrorOrFallbackPath(t)
          /\ CacheFresh

====
